---- MODULE Spec2Model ----
(***************************************************************************)
(* A model of akashic's metadata source resolution (src/source.rs), the    *)
(* per-item processor (src/metadata/processor.rs) and the selection        *)
(* matchers (src/config/selection).                                        *)
(*                                                                         *)
(* Paths are sequences of components, as std::path::Components yields      *)
(* them: the root marker, the parent marker "..", or a normal name.  A     *)
(* name is a sequence of characters so that glob patterns can be matched   *)
(* against it.                                                             *)
(***************************************************************************)
EXTENDS Integers, Sequences, FiniteSets, TLC

VARIABLES
    fs,          \* the filesystem: absolute path -> kind of node
    sourcer,     \* Sourcer.0: the ordered Vec<Source>
    mp,          \* the MetaPaths iterator: item_path and position of iter
    mpOut,       \* what MetaPaths::next has returned so far, call by call
    mpVisited,   \* the indices of the sources meta_path was called on, in order
    call,        \* SpecSource: the last function application
    fatal,       \* what Error::is_fatal returned
    ret,         \* what Source::meta_path returned
    ipErr,       \* the error Source::item_paths returned, if any
    ip,          \* the ItemPaths iterator built by Source::item_paths
    ipOut,       \* what ItemPaths::next has returned so far, call by call
    collab,      \* per MetaLocation, what the processor's collaborators return
    meta_locations, \* composite_item_file: the locations handed in
    pc,          \* composite_item_file: "idle", "loop" or "done"
    consumed,    \* composite_item_file: locations the for loop has taken
    comp_mb,     \* composite_item_file: the block merged so far
    pRet,        \* composite_item_file: what it returned
    pLog,        \* the process_item_file calls made, with their results
    selection,   \* the Selection: its four matchers
    selCall,     \* SpecSelection: the last function application
    selRet,      \* SpecSelection: the boolean it returned
    ssp,         \* the SelectedSubPaths iterator: the ReadDir listing and its position
    sspErr,      \* the error Selection::select_in_dir returned, if any
    sspOut,      \* what SelectedSubPaths::next has returned so far, call by call
    prod,        \* the combinator under test: its upstream producers and its own fields
    prodOut,     \* what the combinator's next has returned so far, call by call
    prodLog,     \* per call of next, the upstream pulls and the user-logic invocations it made
    nl,          \* the NumberLike (or Number) operated on: self
    nlCall,      \* SpecNumberLike: the operation applied, with self before it and its operand
    nlRet,       \* SpecNumberLike: what the operation returned, or that it panicked
    implCall,    \* SpecImpl: the function of Impl applied, with its arguments
    implRet      \* SpecImpl: what it returned, the upstream pulls and the predicate invocations it made

vars ==
    <<fs, sourcer, mp, mpOut, mpVisited, call, fatal, ret, ipErr, ip, ipOut,
      collab, meta_locations, pc, consumed, comp_mb, pRet, pLog,
      selection, selCall, selRet,
      ssp, sspErr, sspOut,
      prod, prodOut, prodLog,
      nl, nlCall, nlRet,
      implCall, implRet>>

sourcerVars == <<sourcer, mp, mpOut, mpVisited>>
sourceVars == <<call, fatal, ret, ipErr, ip, ipOut>>
procVars == <<collab, meta_locations, pc, consumed, comp_mb, pRet, pLog>>
selVars == <<selection, selCall, selRet>>
dirVars == <<ssp, sspErr, sspOut>>
prodVars == <<prod, prodOut, prodLog>>
numVars == <<nl, nlCall, nlRet>>
implVars == <<implCall, implRet>>

----------------------------------------------------------------------------
(* Option and Result values.                                               *)

None == [some |-> FALSE]
Some(x) == [some |-> TRUE, val |-> x]

Ok(x) == [ok |-> TRUE, val |-> x]
Err(e) == [ok |-> FALSE, err |-> e]

Front(s) == SubSeq(s, 1, Len(s) - 1)
Last(s) == s[Len(s)]

----------------------------------------------------------------------------
(* std::path as the code uses it.                                          *)

RootDir == <<"/">>
ParentDir == <<".", ".">>

IsNormal(c) == c \notin {RootDir, ParentDir}

\* Path::parent: None for the empty path and for a path ending in the root.
parent(p) ==
    IF p = <<>> THEN None
    ELSE IF Last(p) = RootDir THEN None
    ELSE Some(Front(p))

\* Path::join with a relative, single-component name.
join(p, name) == p \o <<name>>

\* Path::join with any path: an absolute path replaces the receiver.
join_path(q, p) == IF p # <<>> /\ Head(p) = RootDir THEN p ELSE q \o p

\* Path::file_name: the final component when it is a normal one.
file_name(p) ==
    IF p = <<>> THEN None
    ELSE IF IsNormal(Last(p)) THEN Some(Last(p))
    ELSE None

----------------------------------------------------------------------------
(* The filesystem the code stats and lists.                                *)

Root == <<RootDir>>
NameD == <<"d">>
NameM == <<"m">>
NameN == <<"n">>

\* The absolute paths that may exist; everything else is absent.
Universe ==
    { Root, <<RootDir, NameD>>, <<RootDir, NameM>>, <<RootDir, NameD, NameM>> }

\* "locked" is a directory without search permission: it can be stat'ed and
\* listed, but nothing below it can be stat'ed.  "other" is neither a regular
\* file nor a directory.
Kinds == {"absent", "file", "dir", "locked", "other"}

IsDirKind(k) == k \in {"dir", "locked"}
IsFileKind(k) == k = "file"

FsSet ==
    { f \in [Universe -> Kinds] :
        /\ f[Root] = "dir"
        /\ \A p \in Universe :
             Len(p) = 3 =>
               /\ f[p] \in {"absent", "file", "dir"}
               /\ f[p] # "absent" => IsDirKind(f[Front(p)]) }

\* The working directory relative paths are resolved against.
Cwd == Root

RECURSIVE Normalize(_, _)
Normalize(acc, rest) ==
    IF rest = <<>> THEN acc
    ELSE IF Head(rest) = ParentDir
         THEN Normalize(IF Len(acc) > 1 THEN Front(acc) ELSE acc, Tail(rest))
         ELSE Normalize(Append(acc, Head(rest)), Tail(rest))

Resolve(p) ==
    IF Head(p) = RootDir THEN Normalize(Root, Tail(p)) ELSE Normalize(Cwd, p)

KindAt(f, q) == IF q \in DOMAIN f THEN f[q] ELSE "absent"

\* The walk from the root to q: the first component that stops it decides
\* the error.
RECURSIVE Walk(_, _, _)
Walk(f, q, k) ==
    LET kind == KindAt(f, SubSeq(q, 1, k)) IN
    IF kind = "absent" THEN Err("NotFound")
    ELSE IF k = Len(q) THEN Ok(kind)
    ELSE IF kind = "dir" THEN Walk(f, q, k + 1)
    ELSE IF kind = "locked" THEN Err("PermissionDenied")
    ELSE Err("NotADirectory")

\* std::fs::metadata(path): Ok(kind of node) or Err(io error kind).
Stat(f, p) ==
    IF p = <<>> THEN Err("NotFound") ELSE Walk(f, Resolve(p), 1)

\* The entries std::fs::read_dir(dir) lists, as dir.join(name).
Entries(f, dir) ==
    { join(dir, Last(q)) : q \in { u \in Universe :
          /\ Len(u) > 1
          /\ Front(u) = Resolve(dir)
          /\ f[u] # "absent" } }

\* std::fs::read_dir(dir): the open itself.
ReadDirOpen(f, dir) ==
    LET st == Stat(f, dir) IN
    IF ~st.ok THEN Err(st.err)
    ELSE IF ~IsDirKind(st.val) THEN Err("NotADirectory")
    ELSE Ok(Entries(f, dir))

----------------------------------------------------------------------------
(* src/source.rs: Error, Anchor, Source.                                   *)

ErrorV(tag, path, io) == [tag |-> tag, path |-> path, io |-> io]

NoIo == "-"

IoKinds == {"NotFound", "PermissionDenied", "NotADirectory"}

Anchors == {"External", "Internal"}

SourceV(name, anchor) == [name |-> name, anchor |-> anchor]

Sources == { SourceV(n, a) : n \in {NameM, NameN}, a \in Anchors }

\* A slip: every error whose I/O kind is NotFound counts as skippable.
is_fatal_any_not_found(e) ==
    IF e.io = "NotFound" THEN FALSE
    ELSE IF e.tag \in {"NotADir", "NoItemParentDir"} THEN FALSE
    ELSE TRUE

is_fatal(e) ==
    IF e.tag = "MetaAccess" THEN (IF e.io = "NotFound" THEN FALSE ELSE TRUE)
    ELSE IF e.tag \in {"NotADir", "NoItemParentDir"} THEN FALSE
    ELSE TRUE

\* A slip: the Internal anchor does not require the item to be a directory.
meta_path_parent_dir_unchecked(source, item_path, item_fs_stat) ==
    IF source.anchor = "External"
    THEN (IF parent(item_path).some
          THEN Ok(parent(item_path).val)
          ELSE Err(ErrorV("NoItemParentDir", item_path, NoIo)))
    ELSE Ok(item_path)

\* The match on self.anchor in Source::meta_path: the directory the meta
\* file is looked for in, or the error that ends the call.
meta_path_parent_dir(source, item_path, item_fs_stat) ==
    IF source.anchor = "External"
    THEN (IF parent(item_path).some
          THEN Ok(parent(item_path).val)
          ELSE Err(ErrorV("NoItemParentDir", item_path, NoIo)))
    ELSE (IF ~IsDirKind(item_fs_stat.val)
          THEN Err(ErrorV("NotADir", item_path, NoIo))
          ELSE Ok(item_path))

\* A slip: with the External anchor the item itself is not stat'ed.
meta_path_item_unchecked(f, source, item_path) ==
    LET item_fs_stat == Stat(f, item_path) IN
    IF ~item_fs_stat.ok /\ source.anchor = "Internal"
    THEN Err(ErrorV("ItemAccess", item_path, item_fs_stat.err))
    ELSE
      LET dir == meta_path_parent_dir(source, item_path, item_fs_stat) IN
      IF ~dir.ok THEN dir
      ELSE
        LET candidate == join(dir.val, source.name)
            meta_fs_stat == Stat(f, candidate)
        IN
        IF ~meta_fs_stat.ok
        THEN Err(ErrorV("MetaAccess", candidate, meta_fs_stat.err))
        ELSE IF ~IsFileKind(meta_fs_stat.val)
        THEN Err(ErrorV("NotAFile", candidate, NoIo))
        ELSE Ok(candidate)

meta_path(f, source, item_path) ==
    LET item_fs_stat == Stat(f, item_path) IN
    IF ~item_fs_stat.ok
    THEN Err(ErrorV("ItemAccess", item_path, item_fs_stat.err))
    ELSE
      LET dir == meta_path_parent_dir(source, item_path, item_fs_stat) IN
      IF ~dir.ok THEN dir
      ELSE
        LET candidate == join(dir.val, source.name)
            meta_fs_stat == Stat(f, candidate)
        IN
        IF ~meta_fs_stat.ok
        THEN Err(ErrorV("MetaAccess", candidate, meta_fs_stat.err))
        ELSE IF ~IsFileKind(meta_fs_stat.val)
        THEN Err(ErrorV("NotAFile", candidate, NoIo))
        ELSE Ok(candidate)

\* Source::item_paths: the iterator it builds (ItemPaths), or the error.
ReadDirIter(entries) == [kind |-> "ReadDir", rest |-> entries, single |-> None]
SingleIter(opt) == [kind |-> "Single", rest |-> {}, single |-> opt]
NoIter == [kind |-> "NoIter", rest |-> {}, single |-> None]

item_paths(f, source, meta_path_arg) ==
    LET meta_fs_stat == Stat(f, meta_path_arg) IN
    IF ~meta_fs_stat.ok
    THEN Err(ErrorV("MetaAccess", meta_path_arg, meta_fs_stat.err))
    ELSE IF ~IsFileKind(meta_fs_stat.val)
    THEN Err(ErrorV("NotAFile", meta_path_arg, NoIo))
    ELSE IF parent(meta_path_arg).some
    THEN LET meta_parent_dir_path == parent(meta_path_arg).val IN
         IF source.anchor = "External"
         THEN LET read_dir == ReadDirOpen(f, meta_parent_dir_path) IN
              IF ~read_dir.ok
              THEN Err(ErrorV("IterDir", <<>>, read_dir.err))
              ELSE Ok(ReadDirIter(read_dir.val))
         ELSE Ok(SingleIter(Some(meta_parent_dir_path)))
    ELSE Err(ErrorV("NoMetaParentDir", meta_path_arg, NoIo))

----------------------------------------------------------------------------
(* Sourcer and MetaPaths.                                                  *)

NoMetaPaths == [live |-> FALSE, item_path |-> <<>>, iter |-> 0]

\* The while loop of MetaPaths::next from position i of the slice iterator:
\* the position it leaves the iterator at, what it returns, and the sources
\* it called meta_path on.
\* A slip: a skippable error ends the call (break) instead of moving on to
\* the next source (continue).
MetaPathsLoop_break(f, srcs, item_path, i) ==
    IF i >= Len(srcs)
    THEN [iter |-> i, out |-> None, seen |-> <<>>]
    ELSE
      LET source == srcs[i + 1]
          res == meta_path(f, source, item_path)
      IN
      IF res.ok
      THEN [iter |-> i + 1,
            out |-> Some(Ok([meta_path |-> res.val, index |-> i + 1,
                             source |-> source])),
            seen |-> <<i + 1>>]
      ELSE IF is_fatal(res.err)
      THEN [iter |-> i + 1, out |-> Some(Err(res.err)), seen |-> <<i + 1>>]
      ELSE [iter |-> i + 1, out |-> None, seen |-> <<i + 1>>]

RECURSIVE MetaPathsLoop(_, _, _, _)
MetaPathsLoop(f, srcs, item_path, i) ==
    IF i >= Len(srcs)
    THEN [iter |-> i, out |-> None, seen |-> <<>>]
    ELSE
      LET source == srcs[i + 1]
          res == meta_path(f, source, item_path)
      IN
      IF res.ok
      THEN [iter |-> i + 1,
            out |-> Some(Ok([meta_path |-> res.val, index |-> i + 1,
                             source |-> source])),
            seen |-> <<i + 1>>]
      ELSE IF is_fatal(res.err)
      THEN [iter |-> i + 1, out |-> Some(Err(res.err)), seen |-> <<i + 1>>]
      ELSE LET r == MetaPathsLoop(f, srcs, item_path, i + 1) IN
           [r EXCEPT !.seen = <<i + 1>> \o r.seen]

----------------------------------------------------------------------------
(* src/config/selection: Matcher and Selection.                            *)

\* GlobSet matching of one pattern against a file name: "*" matches any run
\* of characters, "?" any one character, anything else itself.
RECURSIVE GlobMatch(_, _)
GlobMatch(pat, name) ==
    IF pat = <<>> THEN name = <<>>
    ELSE IF Head(pat) = "*"
    THEN \/ GlobMatch(Tail(pat), name)
         \/ name # <<>> /\ GlobMatch(pat, Tail(name))
    ELSE IF name = <<>> THEN FALSE
    ELSE /\ Head(pat) = "?" \/ Head(pat) = Head(name)
         /\ GlobMatch(Tail(pat), Tail(name))

\* GlobSet::is_match: some pattern of the set matches.
GlobSetIsMatch(globset, name) == \E pat \in globset : GlobMatch(pat, name)

\* Matcher::build: a GlobSet of the patterns handed in.
build(pattern_strs) == { pattern_strs[i] : i \in DOMAIN pattern_strs }

\* A slip: a path without a file name counts as a match.
is_match_unwrap_true(matcher, path) ==
    IF file_name(path).some
    THEN GlobSetIsMatch(matcher, file_name(path).val)
    ELSE TRUE

\* A slip: the first component is matched instead of the file name.
is_match_first_component(matcher, path) ==
    IF path # <<>> /\ IsNormal(Head(path))
    THEN GlobSetIsMatch(matcher, Head(path))
    ELSE FALSE

\* Matcher::is_match: on the file name only; false without one.
is_match(matcher, path) ==
    IF file_name(path).some
    THEN GlobSetIsMatch(matcher, file_name(path).val)
    ELSE FALSE

MatcherAny == build(<< <<"*">> >>)
MatcherEmpty == {}

SelectionV(include_files, exclude_files, include_dirs, exclude_dirs) ==
    [include_files |-> include_files, exclude_files |-> exclude_files,
     include_dirs |-> include_dirs, exclude_dirs |-> exclude_dirs]

SelectionDefault ==
    SelectionV(MatcherAny, MatcherEmpty, MatcherAny, MatcherEmpty)

\* A slip: the directory case excludes by the file matcher.
is_pattern_match_exclude_files(sel, path, fod) ==
    LET inc == IF fod = "File" THEN sel.include_files ELSE sel.include_dirs
        exc == sel.exclude_files
    IN is_match(inc, path) /\ ~is_match(exc, path)

is_pattern_match(sel, path, fod) ==
    LET inc == IF fod = "File" THEN sel.include_files ELSE sel.include_dirs
        exc == IF fod = "File" THEN sel.exclude_files ELSE sel.exclude_dirs
    IN is_match(inc, path) /\ ~is_match(exc, path)

is_file_pattern_match(sel, path) == is_pattern_match(sel, path, "File")
is_dir_pattern_match(sel, path) == is_pattern_match(sel, path, "Dir")

NoSelCall == [op |-> "none", path |-> <<>>, matcher |-> MatcherEmpty]

\* Selection::is_selected: one metadata lookup decides which matchers judge.
\* A slip: a directory is judged by the file matchers.
is_selected_as_file(f, sel, path) ==
    LET file_info == Stat(f, path) IN
    IF ~file_info.ok THEN Err(file_info.err)
    ELSE Ok(IF IsFileKind(file_info.val) \/ IsDirKind(file_info.val)
            THEN is_file_pattern_match(sel, path)
            ELSE FALSE)

is_selected(f, sel, path) ==
    LET file_info == Stat(f, path) IN
    IF ~file_info.ok THEN Err(file_info.err)
    ELSE Ok(IF IsFileKind(file_info.val)
            THEN is_file_pattern_match(sel, path)
            ELSE IF IsDirKind(file_info.val)
            THEN is_dir_pattern_match(sel, path)
            ELSE FALSE)

\* Selection::select_in_dir: the open; the listing is ReadDir's business.
select_in_dir(f, dir_path) == ReadDirOpen(f, dir_path)

\* The closure SelectedSubPaths::next hands to find_map.
SelectedSubPathsClosure(f, sel, res) ==
    IF ~res.ok THEN Some(Err(res.err))
    ELSE LET sub_path == res.val
             picked == is_selected(f, sel, sub_path)
         IN IF ~picked.ok THEN Some(Err(picked.err))
            ELSE IF picked.val THEN Some(Ok(sub_path))
            ELSE None

\* Iterator::find_map over the listing rd from position i: the position it
\* leaves the reader at and what it returns.
RECURSIVE find_map(_, _, _, _)
find_map(f, sel, rd, i) ==
    IF i > Len(rd) THEN [pos |-> i, out |-> None]
    ELSE LET mapped == SelectedSubPathsClosure(f, sel, rd[i]) IN
         IF mapped.some THEN [pos |-> i + 1, out |-> mapped]
         ELSE find_map(f, sel, rd, i + 1)

NoSubPaths == [live |-> FALSE, rd |-> <<>>, pos |-> 1]

\* The selection's part of the state while no selection is exercised.
SelIdle ==
    /\ selection = SelectionDefault
    /\ selCall = NoSelCall
    /\ selRet = FALSE

\* The directory iterator's part of the state while none is open.
DirIdle ==
    /\ ssp = NoSubPaths
    /\ sspErr = None
    /\ sspOut = <<>>

\* The producers' part of the state while no combinator is under test.
ProdIdle ==
    /\ prod = [kind |-> "none"]
    /\ prodOut = <<>>
    /\ prodLog = <<>>

\* NumberLike (and Number): Integer(i64) or Decimal(BigDecimal).  A
\* BigDecimal is an unbounded integer int_val and a scale: int_val / 10^scale.
Integer(i) == [tag |-> "Integer", int_val |-> i, scale |-> 0]
Decimal(int_val, scale) ==
    [tag |-> "Decimal", int_val |-> int_val, scale |-> scale]

\* One operation on a number: its name, self before it, the operand.
NumberCall(op, self, other) == [op |-> op, self |-> self, other |-> other]

\* The numbers' part of the state while no operation has been applied.
NumIdle ==
    /\ nl = Integer(0)
    /\ nlCall = <<>>
    /\ nlRet = <<>>

\* The Impl functions' part of the state while none has been applied.
ImplIdle ==
    /\ implCall = <<>>
    /\ implRet = <<>>

----------------------------------------------------------------------------
(* Bounds and input sets.                                                  *)

MaxSources == 2
MaxNone == 2

CountNone(out) == Cardinality({ i \in DOMAIN out : out[i] = None })

\* Item paths handed to meta_path and meta_paths: absolute and relative,
\* existing and not.
ItemArgs ==
    { Root, <<RootDir, NameD>>, <<RootDir, NameM>>, <<RootDir, NameD, NameM>>,
      <<RootDir, NameM, NameN>>, <<>>, <<NameD>>, <<NameD, NameM>> }

\* Meta paths handed to item_paths.
MetaArgs ==
    { <<RootDir, NameM>>, <<RootDir, NameD, NameM>>, <<RootDir, NameD>>,
      <<RootDir, NameN>>, <<NameM>>, <<NameD, NameM>>, <<>> }

ErrorArgs ==
    { ErrorV(t, Root, io) : t \in {"ItemAccess", "MetaAccess", "IterDir"},
                            io \in IoKinds }
    \cup { ErrorV(t, Root, NoIo) :
             t \in {"NotADir", "NotAFile", "NoItemParentDir", "NoMetaParentDir"} }

NoCall == [op |-> "none", source |-> SourceV(NameM, "External"),
           path |-> <<>>, err |-> ErrorV("none", <<>>, NoIo)]

----------------------------------------------------------------------------
(* Spec: a Sourcer is built, then one MetaPaths iterator is drained.       *)

InitSourcer ==
    /\ sourcer = <<>>
    /\ mp = NoMetaPaths
    /\ mpOut = <<>>
    /\ mpVisited = <<>>

InitSource ==
    /\ call = NoCall
    /\ fatal = FALSE
    /\ ret = None
    /\ ipErr = None
    /\ ip = NoIter
    /\ ipOut = <<>>

\* The processor's part of the state while the processor is not running.
ProcIdle ==
    /\ collab = <<>>
    /\ meta_locations = <<>>
    /\ pc = "idle"
    /\ consumed = 0
    /\ comp_mb = <<>>
    /\ pRet = None
    /\ pLog = <<>>

Init ==
    /\ fs \in FsSet
    /\ InitSourcer
    /\ InitSource
    /\ ProcIdle
    /\ SelIdle
    /\ DirIdle
    /\ ProdIdle
    /\ NumIdle
    /\ ImplIdle

\* Sourcer::source: push.  The iterator borrows the Sourcer, so no push
\* happens while one is alive.
SourcerSource(s) ==
    /\ ~mp.live
    /\ Len(sourcer) < MaxSources
    /\ sourcer' = Append(sourcer, s)
    /\ UNCHANGED <<fs, mp, mpOut, mpVisited, sourceVars, procVars, selVars, dirVars, prodVars, numVars, implVars>>

SourcerMetaPaths(p) ==
    /\ ~mp.live
    /\ mp' = [live |-> TRUE, item_path |-> p, iter |-> 0]
    /\ UNCHANGED <<fs, sourcer, mpOut, mpVisited, sourceVars, procVars, selVars, dirVars, prodVars, numVars, implVars>>

MetaPathsNext ==
    /\ mp.live
    /\ CountNone(mpOut) < MaxNone
    /\ LET r == MetaPathsLoop(fs, sourcer, mp.item_path, mp.iter) IN
         /\ mp' = [mp EXCEPT !.iter = r.iter]
         /\ mpOut' = Append(mpOut, r.out)
         /\ mpVisited' = mpVisited \o r.seen
    /\ UNCHANGED <<fs, sourcer, sourceVars, procVars, selVars, dirVars, prodVars, numVars, implVars>>

Next ==
    \/ \E s \in Sources : SourcerSource(s)
    \/ \E p \in ItemArgs : SourcerMetaPaths(p)
    \/ MetaPathsNext

Spec == Init /\ [][Next]_vars

----------------------------------------------------------------------------
(* SpecSource: the functions of Error and Source applied to drawn inputs.  *)

CallIsFatal(e) ==
    /\ call' = [NoCall EXCEPT !.op = "is_fatal", !.err = e]
    /\ fatal' = is_fatal(e)
    /\ ret' = None
    /\ ipErr' = None
    /\ ip' = NoIter
    /\ ipOut' = <<>>
    /\ UNCHANGED <<fs, sourcerVars, procVars, selVars, dirVars, prodVars, numVars, implVars>>

CallMetaPath(s, p) ==
    /\ call' = [NoCall EXCEPT !.op = "meta_path", !.source = s, !.path = p]
    /\ ret' = meta_path(fs, s, p)
    /\ fatal' = FALSE
    /\ ipErr' = None
    /\ ip' = NoIter
    /\ ipOut' = <<>>
    /\ UNCHANGED <<fs, sourcerVars, procVars, selVars, dirVars, prodVars, numVars, implVars>>

CallItemPaths(s, p) ==
    /\ call' = [NoCall EXCEPT !.op = "item_paths", !.source = s, !.path = p]
    /\ LET r == item_paths(fs, s, p) IN
         /\ ipErr' = IF r.ok THEN None ELSE Some(r.err)
         /\ ip' = IF r.ok THEN r.val ELSE NoIter
    /\ fatal' = FALSE
    /\ ret' = None
    /\ ipOut' = <<>>
    /\ UNCHANGED <<fs, sourcerVars, procVars, selVars, dirVars, prodVars, numVars, implVars>>

\* ItemPathsInner::next.  ReadDir hands out the entries in an order of its
\* own, and reading an entry may fail.
ItemPathsNext ==
    /\ ip.kind # "NoIter"
    /\ CountNone(ipOut) < MaxNone
    /\ \/ /\ ip.kind = "ReadDir"
          /\ ip.rest = {}
          /\ ipOut' = Append(ipOut, None)
          /\ ip' = ip
       \/ /\ ip.kind = "ReadDir"
          /\ \E e \in ip.rest :
               /\ ip' = [ip EXCEPT !.rest = ip.rest \ {e}]
               /\ \/ ipOut' = Append(ipOut, Some(Ok(e)))
                  \/ ipOut' = Append(ipOut, Some(Err("Other")))
       \/ /\ ip.kind = "Single"
          /\ ipOut' = Append(ipOut, IF ip.single.some
                                    THEN Some(Ok(ip.single.val)) ELSE None)
          /\ ip' = [ip EXCEPT !.single = None]
    /\ UNCHANGED <<fs, sourcerVars, procVars, selVars, call, fatal, ret, ipErr, dirVars, prodVars, numVars, implVars>>

NextSource ==
    \/ \E e \in ErrorArgs : CallIsFatal(e)
    \/ \E s \in Sources, p \in ItemArgs : CallMetaPath(s, p)
    \/ \E s \in Sources, p \in MetaArgs : CallItemPaths(s, p)
    \/ ItemPathsNext

SpecSource == Init /\ [][NextSource]_vars

----------------------------------------------------------------------------
(* Claims about Sourcer::meta_paths (Spec).                                *)

IsSome(x) == x.some

\* The errors the claim lists as skippable.
ListedNonFatal(e) ==
    \/ e.tag = "MetaAccess" /\ e.io = "NotFound"
    \/ e.tag = "NotADir"
    \/ e.tag = "NoItemParentDir"

\* What sources 1..k contribute, one by one: nothing for a listed skippable
\* error, one element otherwise.
RECURSIVE ExpectedYield(_, _, _, _)
ExpectedYield(f, srcs, item_path, k) ==
    IF k = 0 THEN <<>>
    ELSE
      LET r == meta_path(f, srcs[k], item_path)
          prev == ExpectedYield(f, srcs, item_path, k - 1)
      IN
      IF r.ok
      THEN Append(prev, Some(Ok([meta_path |-> r.val, index |-> k,
                                 source |-> srcs[k]])))
      ELSE IF ListedNonFatal(r.err) THEN prev
      ELSE Append(prev, Some(Err(r.err)))

\* The scenario of the claim: an Internal source whose file is missing,
\* then an External source whose file exists.
C1_Scenario ==
    /\ mp.live
    /\ Len(sourcer) = 2
    /\ sourcer[1].anchor = "Internal"
    /\ LET r == meta_path(fs, sourcer[1], mp.item_path) IN
         ~r.ok /\ r.err.tag = "MetaAccess" /\ r.err.io = "NotFound"
    /\ sourcer[2].anchor = "External"
    /\ meta_path(fs, sourcer[2], mp.item_path).ok

\* C1: meta_paths visits the sources in insertion order, each at most once;
\* a source failing with a listed skippable error yields no element, a
\* source that resolves yields exactly one Ok((meta_path, source)), in source
\* order; None is returned only when every source has been visited; in the
\* scenario the drained iterator has yielded exactly the second source.
C1_SkipsNonFatalInOrder ==
    mp.live =>
      /\ mpVisited = [i \in 1..mp.iter |-> i]
      /\ SelectSeq(mpOut, IsSome)
           = ExpectedYield(fs, sourcer, mp.item_path, mp.iter)
      /\ (mpOut # <<>> /\ Last(mpOut) = None) => mp.iter = Len(sourcer)
      /\ (C1_Scenario /\ mpOut # <<>> /\ Last(mpOut) = None) =>
           /\ Len(SelectSeq(mpOut, IsSome)) = 1
           /\ mpOut[1].val.ok
           /\ mpOut[1].val.val.index = 2

C1_Witness ==
    /\ C1_Scenario
    /\ Len(mpOut) = 2
    /\ mpOut[1].some /\ mpOut[1].val.ok /\ mpOut[1].val.val.index = 2
    /\ mpOut[2] = None

IsErrItem(x) == x.some /\ ~x.val.ok

\* The first source, in order, whose resolution fails fatally.
C2_FirstFatal ==
    CHOOSE n \in 1..Len(sourcer) :
      LET r == meta_path(fs, sourcer[n], mp.item_path) IN
      /\ ~r.ok /\ is_fatal(r.err)
      /\ \A m \in 1..(n - 1) :
           LET q == meta_path(fs, sourcer[m], mp.item_path) IN
           q.ok \/ ~is_fatal(q.err)

\* C2: a fatal error is the last element of the sequence: once next() has
\* returned one, every later call returns None and no source after the
\* failing one is resolved.
C2_FatalErrorEndsSequence ==
    \A k \in DOMAIN mpOut :
      IsErrItem(mpOut[k]) =>
        /\ \A j \in DOMAIN mpOut : j > k => mpOut[j] = None
        /\ Len(mpVisited) = C2_FirstFatal

----------------------------------------------------------------------------
(* Claims about Error::is_fatal and Source (SpecSource).                   *)

\* C3: is_fatal is false exactly for MetaAccess with kind NotFound, NotADir
\* and NoItemParentDir, and true for every other error.
C3_IsFatalTable ==
    call.op = "is_fatal" =>
      (fatal = FALSE <=>
         \/ call.err.tag = "MetaAccess" /\ call.err.io = "NotFound"
         \/ call.err.tag = "NotADir"
         \/ call.err.tag = "NoItemParentDir")

C3_Witness ==
    /\ call.op = "is_fatal"
    /\ call.err.tag = "ItemAccess"
    /\ call.err.io = "NotFound"
    /\ fatal = TRUE

\* The candidate the claim names: parent(item)/name or item/name.
C4_Candidate ==
    IF call.source.anchor = "External"
    THEN join(Front(call.path), call.source.name)
    ELSE join(call.path, call.source.name)

C4_ItemOk == Stat(fs, call.path).ok

C4_AnchorOk ==
    IF call.source.anchor = "External"
    THEN call.path # <<>> /\ Last(call.path) # RootDir
    ELSE Stat(fs, call.path).val \in {"dir", "locked"}

\* C4: meta_path returns Ok(p) iff the item can be stat'ed, the anchor's
\* requirement holds and the candidate p is a regular file, with p the
\* candidate of the anchor; otherwise the error of the first failing step.
C4_MetaPathResult ==
    call.op = "meta_path" =>
      /\ ret.ok <=>
           /\ C4_ItemOk
           /\ C4_AnchorOk
           /\ Stat(fs, C4_Candidate).ok
           /\ Stat(fs, C4_Candidate).val = "file"
      /\ ret.ok => ret.val = C4_Candidate
      /\ ~ret.ok =>
           ret.err.tag =
             IF ~C4_ItemOk THEN "ItemAccess"
             ELSE IF ~C4_AnchorOk
                  THEN (IF call.source.anchor = "External"
                        THEN "NoItemParentDir" ELSE "NotADir")
             ELSE IF ~Stat(fs, C4_Candidate).ok THEN "MetaAccess"
             ELSE "NotAFile"

C4_Witness ==
    /\ call.op = "meta_path"
    /\ call.source.anchor = "External"
    /\ ret.ok
    /\ ret.val = <<RootDir, NameD, NameM>>

OkPaths(out) == { out[i].val.val : i \in { j \in DOMAIN out : out[j].some /\ out[j].val.ok } }

Drained(out) == out # <<>> /\ Last(out) = None

\* C5: for a meta path that is a regular file, item_paths with an External
\* anchor yields every entry of the meta file's parent directory, the meta
\* file among them; with an Internal anchor it yields the parent directory
\* once and then None.
C5_ItemPathsOfRegularFile ==
    ( /\ call.op = "item_paths"
      /\ Stat(fs, call.path).ok
      /\ Stat(fs, call.path).val = "file" ) =>
        /\ ipErr = None
        /\ call.source.anchor = "External" =>
             /\ ip.kind = "ReadDir"
             /\ (Drained(ipOut) /\ \A i \in DOMAIN ipOut : ~IsErrItem(ipOut[i])) =>
                  /\ OkPaths(ipOut) = Entries(fs, Front(call.path))
                  /\ call.path \in OkPaths(ipOut)
                  /\ Len(ipOut) = Cardinality(OkPaths(ipOut)) + CountNone(ipOut)
        /\ call.source.anchor = "Internal" =>
             /\ ip.kind = "Single"
             /\ \A i \in DOMAIN ipOut :
                  ipOut[i] = IF i = 1 THEN Some(Ok(Front(call.path))) ELSE None

----------------------------------------------------------------------------
(* src/metadata/processor.rs: MetaProcessor.                               *)

MetaLocations == {"Contains", "Siblings"}

Keys == {"k1", "k2"}
Vals == {"a", "b"}

\* MetaBlock: a map from key to value.
MetaBlocks == UNION { [D -> Vals] : D \in SUBSET Keys }

EmptyBlock == [k \in {} |-> "a"]

ItemP == <<RootDir, NameD>>
OtherP == <<RootDir, NameM>>
OtherBlock == [k \in {"k1"} |-> "b"]

\* What MetaPlexer::plex may hand back: a block for the item or none, and a
\* block for another item of the same meta file or none.
PlexedMaps ==
    { [q \in {ItemP} |-> b] : b \in MetaBlocks }
    \cup { [q \in {ItemP, OtherP} |-> IF q = ItemP THEN b ELSE OtherBlock] :
             b \in MetaBlocks }
    \cup { [q \in {OtherP} |-> OtherBlock], [q \in {} |-> OtherBlock] }

LocationError == [kind |-> "location", msg |-> "cannot locate meta file"]
ReaderError == [kind |-> "reader", msg |-> "cannot parse meta file"]
SelectionError == [kind |-> "selection", msg |-> "cannot list item paths"]
NoMetadataFound == [kind |-> "msg", msg |-> "no metadata found"]

MetaP == <<RootDir, NameN>>

CollabOk(m) ==
    [get_meta_path |-> Ok(MetaP), from_file |-> Ok("structure"),
     get_selected_item_paths |-> Ok("paths"), plexed |-> m]

\* What get_meta_path, MR::from_file, get_selected_item_paths and
\* MetaPlexer::plex return for one location.
CollabOutcomes ==
    { CollabOk(m) : m \in PlexedMaps }
    \cup { [CollabOk(<<>>) EXCEPT !.get_meta_path = Err(LocationError)],
           [CollabOk(<<>>) EXCEPT !.from_file = Err(ReaderError)],
           [CollabOk(<<>>) EXCEPT !.get_selected_item_paths = Err(SelectionError)] }

process_meta_file(c, meta_path_arg, meta_location) ==
    IF ~c[meta_location].from_file.ok
    THEN Err(c[meta_location].from_file.err)
    ELSE IF ~c[meta_location].get_selected_item_paths.ok
    THEN Err(c[meta_location].get_selected_item_paths.err)
    ELSE Ok(c[meta_location].plexed)

\* A slip: a missing entry yields an empty block instead of an error.
process_item_file_or_default(c, item_path, meta_location) ==
    LET meta_path_res == c[meta_location].get_meta_path IN
    IF ~meta_path_res.ok THEN Err(meta_path_res.err)
    ELSE
      LET processed_meta_file ==
            process_meta_file(c, meta_path_res.val, meta_location)
      IN
      IF ~processed_meta_file.ok THEN processed_meta_file
      ELSE IF item_path \in DOMAIN processed_meta_file.val
      THEN Ok(processed_meta_file.val[item_path])
      ELSE Ok(EmptyBlock)

process_item_file(c, item_path, meta_location) ==
    LET meta_path_res == c[meta_location].get_meta_path IN
    IF ~meta_path_res.ok THEN Err(meta_path_res.err)
    ELSE
      LET processed_meta_file ==
            process_meta_file(c, meta_path_res.val, meta_location)
      IN
      IF ~processed_meta_file.ok THEN processed_meta_file
      ELSE IF item_path \in DOMAIN processed_meta_file.val
      THEN Ok(processed_meta_file.val[item_path])
      ELSE Err(NoMetadataFound)

\* A slip: keys already present are kept (first write wins).
extend_keep_first(comp, mb) ==
    [k \in (DOMAIN comp) \cup (DOMAIN mb) |->
       IF k \in DOMAIN comp THEN comp[k] ELSE mb[k]]

\* BTreeMap::extend: every entry of mb is inserted, replacing what is there.
extend(comp, mb) ==
    [k \in (DOMAIN comp) \cup (DOMAIN mb) |->
       IF k \in DOMAIN mb THEN mb[k] ELSE comp[k]]

\* A slip: a failing location is skipped and the loop goes on.
composite_loop_body_skip_errors(comp, res) ==
    IF ~res.ok
    THEN [returned |-> FALSE, ret |-> None, comp |-> comp]
    ELSE [returned |-> FALSE, ret |-> None, comp |-> extend(comp, res.val)]

\* The body of the for loop of composite_item_file, given what
\* process_item_file returned: `?` returns the error, else the block is
\* merged in.
composite_loop_body(comp, res) ==
    IF ~res.ok
    THEN [returned |-> TRUE, ret |-> Some(res), comp |-> comp]
    ELSE [returned |-> FALSE, ret |-> None, comp |-> extend(comp, res.val)]

MaxLocs == 3

LocSeqs == UNION { [1..n -> MetaLocations] : n \in 0..MaxLocs }

\* The filesystem while the source functions are not exercised.
FsIdle == [q \in Universe |-> IF q = Root THEN "dir" ELSE "absent"]

InitProcessor ==
    /\ fs = FsIdle
    /\ InitSourcer
    /\ InitSource
    /\ SelIdle
    /\ DirIdle
    /\ ProdIdle
    /\ NumIdle
    /\ ImplIdle
    /\ collab \in [MetaLocations -> CollabOutcomes]
    /\ meta_locations = <<>>
    /\ pc = "idle"
    /\ consumed = 0
    /\ comp_mb = EmptyBlock
    /\ pRet = None
    /\ pLog = <<>>

CompositeItemFile(locs) ==
    /\ pc = "idle"
    /\ pc' = "loop"
    /\ meta_locations' = locs
    /\ comp_mb' = EmptyBlock
    /\ UNCHANGED <<fs, sourcerVars, sourceVars, selVars, collab, consumed, pRet,
                   pLog, dirVars, prodVars, numVars, implVars>>

CompositeLoop ==
    /\ pc = "loop"
    /\ consumed < Len(meta_locations)
    /\ LET meta_location == meta_locations[consumed + 1]
           res == process_item_file(collab, ItemP, meta_location)
           b == composite_loop_body(comp_mb, res)
       IN
         /\ consumed' = consumed + 1
         /\ pLog' = Append(pLog, [meta_location |-> meta_location, res |-> res])
         /\ comp_mb' = b.comp
         /\ pRet' = b.ret
         /\ pc' = IF b.returned THEN "done" ELSE "loop"
    /\ UNCHANGED <<fs, sourcerVars, sourceVars, selVars, collab, meta_locations, dirVars, prodVars, numVars, implVars>>

CompositeReturn ==
    /\ pc = "loop"
    /\ consumed = Len(meta_locations)
    /\ pRet' = Some(Ok(comp_mb))
    /\ pc' = "done"
    /\ UNCHANGED <<fs, sourcerVars, sourceVars, selVars, collab, meta_locations,
                   consumed, comp_mb, pLog, dirVars, prodVars, numVars, implVars>>

NextProcessor ==
    \/ \E locs \in LocSeqs : CompositeItemFile(locs)
    \/ CompositeLoop
    \/ CompositeReturn

SpecProcessor == InitProcessor /\ [][NextProcessor]_vars

----------------------------------------------------------------------------
(* Claims about MetaProcessor (SpecProcessor).                             *)

\* A location processes successfully: its meta file is located, read and
\* listed, and the plexed map has an entry for the item.
LocSucceeds(loc) ==
    /\ collab[loc].get_meta_path.ok
    /\ collab[loc].from_file.ok
    /\ collab[loc].get_selected_item_paths.ok
    /\ ItemP \in DOMAIN collab[loc].plexed

\* The error a failing location fails with.
LocError(loc) ==
    IF ~collab[loc].get_meta_path.ok THEN collab[loc].get_meta_path.err
    ELSE IF ~collab[loc].from_file.ok THEN collab[loc].from_file.err
    ELSE IF ~collab[loc].get_selected_item_paths.ok
    THEN collab[loc].get_selected_item_paths.err
    ELSE NoMetadataFound

LocBlock(i) == collab[meta_locations[i]].plexed[ItemP]

Failing == { i \in DOMAIN meta_locations : ~LocSucceeds(meta_locations[i]) }

FirstFailing == CHOOSE i \in Failing : \A j \in Failing : i <= j

\* C6: when every location processes successfully, the returned block's key
\* set is the union of the per-location key sets, and each key carries the
\* value of the last location, in the caller's order, whose block has it.
C6_CombineLast ==
    (pc = "done" /\ Failing = {}) =>
      /\ pRet.some /\ pRet.val.ok
      /\ DOMAIN pRet.val.val
           = UNION { DOMAIN LocBlock(i) : i \in DOMAIN meta_locations }
      /\ \A k \in DOMAIN pRet.val.val :
           LET having == { i \in DOMAIN meta_locations : k \in DOMAIN LocBlock(i) }
               last == CHOOSE i \in having : \A j \in having : j <= i
           IN pRet.val.val[k] = LocBlock(last)[k]

C6_Witness ==
    /\ pc = "done"
    /\ meta_locations = <<"Contains", "Siblings">>
    /\ Failing = {}
    /\ LocBlock(1) = [k \in {"k1", "k2"} |-> "a"]
    /\ LocBlock(2) = [k \in {"k1"} |-> "b"]
    /\ pRet = Some(Ok([k \in {"k1", "k2"} |-> IF k = "k1" THEN "b" ELSE "a"]))

\* C7: if process_item_file fails for some location, the result is the
\* error of the first failing location in the caller's order, no location
\* after it is processed, and no block is returned.
C7_AllOrNothing ==
    Failing # {} =>
      /\ Len(pLog) <= FirstFailing
      /\ \A i \in DOMAIN pLog : pLog[i].meta_location = meta_locations[i]
      /\ pc = "done" =>
           /\ pRet = Some(Err(LocError(meta_locations[FirstFailing])))
           /\ Len(pLog) = FirstFailing

C7_Witness ==
    /\ pc = "done"
    /\ meta_locations = <<"Siblings", "Contains", "Siblings">>
    /\ LocSucceeds("Siblings")
    /\ LocBlock(1) # EmptyBlock
    /\ ~LocSucceeds("Contains")
    /\ Len(pLog) = 2
    /\ pRet.some /\ ~pRet.val.ok

----------------------------------------------------------------------------
(* SpecSelection: the matchers of a Selection applied to drawn paths.      *)

PatStarDotA == <<"*", ".", "a">>
PatMStar == <<"m", "*">>
PatOne == <<"?">>

\* The matchers drawn: any, empty, and sets of one or two patterns.
MatcherArgs ==
    { MatcherAny, MatcherEmpty, build(<<>>), build(<<PatStarDotA>>),
      build(<<PatMStar, PatOne>>), build(<< <<>> >>) }

\* The matchers a drawn Selection is made of.
SelectionMatchers == { MatcherAny, MatcherEmpty, build(<<PatStarDotA>>) }

FileNames == { <<"m">>, <<"m", ".", "a">>, <<".", "a">> }

\* The paths drawn: with and without a final component, absolute and
\* relative, with and without parent segments.
SelPaths ==
    { <<>>, Root, <<ParentDir>>, <<RootDir, NameD, ParentDir>> }
    \cup { <<n>> : n \in FileNames }
    \cup { <<RootDir, n>> : n \in FileNames }
    \cup { <<NameD, n>> : n \in FileNames }

InitSelection ==
    /\ fs = FsIdle
    /\ InitSourcer
    /\ InitSource
    /\ ProcIdle
    /\ selection \in { SelectionV(a, b, c, d) :
                         a \in SelectionMatchers, b \in SelectionMatchers,
                         c \in SelectionMatchers, d \in SelectionMatchers }
    /\ selCall = NoSelCall
    /\ selRet = FALSE
    /\ DirIdle
    /\ ProdIdle
    /\ NumIdle
    /\ ImplIdle

CallIsMatch(m, p) ==
    /\ selCall' = [op |-> "is_match", path |-> p, matcher |-> m]
    /\ selRet' = is_match(m, p)
    /\ UNCHANGED <<fs, sourcerVars, sourceVars, procVars, selection, dirVars, prodVars, numVars, implVars>>

CallIsFilePatternMatch(p) ==
    /\ selCall' = [NoSelCall EXCEPT !.op = "is_file_pattern_match", !.path = p]
    /\ selRet' = is_file_pattern_match(selection, p)
    /\ UNCHANGED <<fs, sourcerVars, sourceVars, procVars, selection, dirVars, prodVars, numVars, implVars>>

CallIsDirPatternMatch(p) ==
    /\ selCall' = [NoSelCall EXCEPT !.op = "is_dir_pattern_match", !.path = p]
    /\ selRet' = is_dir_pattern_match(selection, p)
    /\ UNCHANGED <<fs, sourcerVars, sourceVars, procVars, selection, dirVars, prodVars, numVars, implVars>>

NextSelection ==
    \/ \E m \in MatcherArgs, p \in SelPaths : CallIsMatch(m, p)
    \/ \E p \in SelPaths : CallIsFilePatternMatch(p)
    \/ \E p \in SelPaths : CallIsDirPatternMatch(p)

SpecSelection == InitSelection /\ [][NextSelection]_vars

----------------------------------------------------------------------------
(* Claims about Selection and Matcher (SpecSelection).                     *)

\* The same selection with other file matchers, and with other directory
\* matchers.
WithFileMatchers(sel, a, b) ==
    [sel EXCEPT !.include_files = a, !.exclude_files = b]
WithDirMatchers(sel, c, d) ==
    [sel EXCEPT !.include_dirs = c, !.exclude_dirs = d]

\* C9: is_file_pattern_match is true iff the file include matcher matches
\* and the file exclude matcher does not; is_dir_pattern_match likewise with
\* the directory matchers; the file matchers never influence the directory
\* result and the directory matchers never influence the file result.
C9_IncludeAndNotExclude ==
    /\ selCall.op = "is_file_pattern_match" =>
         /\ selRet = ( /\ is_match(selection.include_files, selCall.path)
                       /\ ~is_match(selection.exclude_files, selCall.path) )
         /\ \A c \in MatcherArgs, d \in MatcherArgs :
              is_file_pattern_match(WithDirMatchers(selection, c, d), selCall.path)
                = selRet
    /\ selCall.op = "is_dir_pattern_match" =>
         /\ selRet = ( /\ is_match(selection.include_dirs, selCall.path)
                       /\ ~is_match(selection.exclude_dirs, selCall.path) )
         /\ \A a \in MatcherArgs, b \in MatcherArgs :
              is_dir_pattern_match(WithFileMatchers(selection, a, b), selCall.path)
                = selRet

\* A directory is excluded by its own exclude matcher although the file
\* matchers would let it through.
C9_Witness ==
    /\ selCall.op = "is_dir_pattern_match"
    /\ selCall.path = <<RootDir, <<"m", ".", "a">> >>
    /\ selection.include_files = MatcherAny
    /\ selection.exclude_files = MatcherEmpty
    /\ selection.include_dirs = MatcherAny
    /\ selection.exclude_dirs = build(<<PatStarDotA>>)
    /\ selRet = FALSE

HasFinalComponent(p) == p # <<>> /\ Last(p) # RootDir /\ Last(p) # ParentDir

\* C10: no matcher, "*" included, matches a path without a final component;
\* on paths with one, Matcher::any() matches all of them and
\* Matcher::empty(), or a matcher built from no patterns, none.
C10_NoFinalComponentNoMatch ==
    selCall.op = "is_match" =>
      /\ ~HasFinalComponent(selCall.path) => selRet = FALSE
      /\ (HasFinalComponent(selCall.path) /\ selCall.matcher = MatcherAny)
           => selRet = TRUE
      /\ (HasFinalComponent(selCall.path)
            /\ selCall.matcher \in {MatcherEmpty, build(<<>>)})
           => selRet = FALSE

C10_Witness ==
    /\ selCall.op = "is_match"
    /\ selCall.matcher = MatcherAny
    /\ selCall.path = Root
    /\ selRet = FALSE

\* Sequences of parent segments a path may be put under.
ParentSegments ==
    { <<>>, Root, <<NameD>>, <<RootDir, NameD>>, <<ParentDir>>,
      <<NameD, ParentDir>>, <<RootDir, NameM, NameD>> }

\* C11: is_file_pattern_match and is_dir_pattern_match depend only on the
\* Selection and the final path component: for a path p with a final
\* component and every sequence of parent segments q, the result for q/p
\* equals the result for p.
C11_ParentSegmentsIrrelevant ==
    /\ (selCall.op = "is_file_pattern_match" /\ HasFinalComponent(selCall.path))
         => \A q \in ParentSegments :
              is_file_pattern_match(selection, join_path(q, selCall.path))
                = selRet
    /\ (selCall.op = "is_dir_pattern_match" /\ HasFinalComponent(selCall.path))
         => \A q \in ParentSegments :
              is_dir_pattern_match(selection, join_path(q, selCall.path))
                = selRet

\* A relative file name the file matchers accept, and still accept under a
\* directory whose own name they would reject.
C11_Witness ==
    /\ selCall.op = "is_file_pattern_match"
    /\ selCall.path = << <<"m", ".", "a">> >>
    /\ selection.include_files = build(<<PatStarDotA>>)
    /\ selection.exclude_files = MatcherEmpty
    /\ selRet = TRUE
    /\ ~GlobSetIsMatch(selection.include_files, NameD)
    /\ is_file_pattern_match(selection, join_path(<<NameD>>, selCall.path))

----------------------------------------------------------------------------
(* SpecSelectInDir: Selection::select_in_dir and SelectedSubPaths.         *)

\* The orders ReadDir may hand a set of entries out in.
Orders(S) ==
    { o \in [1..Cardinality(S) -> S] :
        \A i, j \in DOMAIN o : i # j => o[i] # o[j] }

\* The listings ReadDir may produce: the entries in some order, reading any
\* of them possibly failing.
Listings(S) ==
    { [i \in DOMAIN o |-> IF i \in failed THEN Err("Other") ELSE Ok(o[i])] :
        o \in Orders(S), failed \in SUBSET (1..Cardinality(S)) }

\* The selections applied to a directory.
SelectInDirSelections ==
    { SelectionV(a, b, c, d) :
        a \in {MatcherAny, build(<<PatMStar>>)},
        b \in {MatcherEmpty, build(<<PatMStar>>)},
        c \in {MatcherAny, MatcherEmpty},
        d \in {MatcherEmpty, build(<<PatMStar>>)} }

\* The directory paths drawn: empty, existing or not, a file, relative.
DirArgs ==
    { <<>>, Root, <<RootDir, NameD>>, <<RootDir, NameM>>, <<NameD>>,
      <<RootDir, NameN>> }

InitSelectInDir ==
    /\ fs \in FsSet
    /\ InitSourcer
    /\ InitSource
    /\ ProcIdle
    /\ selection \in SelectInDirSelections
    /\ selCall = NoSelCall
    /\ selRet = FALSE
    /\ DirIdle
    /\ ProdIdle
    /\ NumIdle
    /\ ImplIdle

\* Selection::select_in_dir.  The returned iterator borrows the Selection.
SelectInDir(dir_path) ==
    LET dir_reader == select_in_dir(fs, dir_path) IN
    /\ selCall' = [NoSelCall EXCEPT !.op = "select_in_dir", !.path = dir_path]
    /\ sspOut' = <<>>
    /\ IF dir_reader.ok
       THEN /\ \E rd \in Listings(dir_reader.val) :
                 ssp' = [live |-> TRUE, rd |-> rd, pos |-> 1]
            /\ sspErr' = None
       ELSE /\ ssp' = NoSubPaths
            /\ sspErr' = Some(dir_reader.err)
    /\ UNCHANGED <<fs, sourcerVars, sourceVars, procVars, selection, selRet, prodVars, numVars, implVars>>

\* SelectedSubPaths::next.
SelectedSubPathsNext ==
    /\ ssp.live
    /\ CountNone(sspOut) < MaxNone
    /\ LET found == find_map(fs, selection, ssp.rd, ssp.pos) IN
         /\ ssp' = [ssp EXCEPT !.pos = found.pos]
         /\ sspOut' = Append(sspOut, found.out)
    /\ UNCHANGED <<fs, sourcerVars, sourceVars, procVars, selVars, sspErr, prodVars, numVars, implVars>>

NextSelectInDir ==
    \/ \E dir_path \in DirArgs : SelectInDir(dir_path)
    \/ SelectedSubPathsNext

SpecSelectInDir == InitSelectInDir /\ [][NextSelectInDir]_vars

----------------------------------------------------------------------------
(* Claims about Selection::select_in_dir (SpecSelectInDir).                *)

\* What one listed item must turn into: nothing, or one element.
C12_ItemYield(res) ==
    IF ~res.ok THEN <<Err(res.err)>>
    ELSE LET st == Stat(fs, res.val) IN
         IF ~st.ok THEN <<Err(st.err)>>
         ELSE IF /\ IsFileKind(st.val)
                 /\ is_match(selection.include_files, res.val)
                 /\ ~is_match(selection.exclude_files, res.val)
         THEN <<Ok(res.val)>>
         ELSE IF /\ IsDirKind(st.val)
                 /\ is_match(selection.include_dirs, res.val)
                 /\ ~is_match(selection.exclude_dirs, res.val)
         THEN <<Ok(res.val)>>
         ELSE <<>>

RECURSIVE C12_Expected(_, _)
C12_Expected(rd, n) ==
    IF n = 0 THEN <<>> ELSE C12_Expected(rd, n - 1) \o C12_ItemYield(rd[n])

\* The elements the iterator has yielded so far.
C12_Yielded == SelectSeq(sspOut, IsSome)

C12_CanOpen ==
    /\ Stat(fs, selCall.path).ok
    /\ IsDirKind(Stat(fs, selCall.path).val)

\* C12: select_in_dir reports a failure to open the directory as the
\* top-level Err and yields nothing; once opened, it yields, in enumeration
\* order, Ok(path) for exactly the entries is_selected accepts (files by the
\* file matchers, directories by the directory matchers, anything else not),
\* and each read or stat failure as an Err element, after which iteration
\* goes on with the remaining entries.
C12_SelectInDir ==
    selCall.op = "select_in_dir" =>
      /\ sspErr.some <=> ~C12_CanOpen
      /\ sspErr.some => sspOut = <<>> /\ ~ssp.live
      /\ ~sspErr.some =>
           /\ ssp.live
           /\ { ssp.rd[i].val : i \in { j \in DOMAIN ssp.rd : ssp.rd[j].ok } }
                \subseteq Entries(fs, selCall.path)
           /\ Len(ssp.rd) = Cardinality(Entries(fs, selCall.path))
           /\ [i \in DOMAIN C12_Yielded |-> C12_Yielded[i].val]
                = C12_Expected(ssp.rd, ssp.pos - 1)
           /\ \A i \in DOMAIN sspOut :
                sspOut[i] = None =>
                  /\ ssp.pos = Len(ssp.rd) + 1
                  /\ \A j \in i..Len(sspOut) : sspOut[j] = None

\* A listing of two entries: reading the first fails, the second is
\* selected and yielded after the error, then the iterator ends.
C12_Witness ==
    /\ selCall.op = "select_in_dir"
    /\ Len(ssp.rd) = 2
    /\ Len(sspOut) = 3
    /\ sspOut[1] = Some(Err("Other"))
    /\ sspOut[2].some /\ sspOut[2].val.ok
    /\ sspOut[3] = None

----------------------------------------------------------------------------
(* src/updated_scripting/util/producer/producers.rs: the combinators.      *)
(*                                                                         *)
(* A MetaVal is an integer or a sequence of MetaVals; an item is           *)
(* Result<MetaVal, Error>.  The upstream producers are Raw: a vector of    *)
(* items and the number of them already handed out.                        *)

MetaValInt(i) == [tag |-> "Int", int |-> i, seq |-> <<>>]
MetaValSeq(s) == [tag |-> "Seq", int |-> 0, seq |-> s]

IsSeq(mv) == mv.tag = "Seq"

\* Raw::next on upstream a or b of the combinator st: what it returns, and
\* the combinator with that upstream advanced.
RawNextA(st) == IF st.ia < Len(st.a) THEN Some(st.a[st.ia + 1]) ELSE None
RawNextB(st) == IF st.ib < Len(st.b) THEN Some(st.b[st.ib + 1]) ELSE None
AdvanceA(st) == IF st.ia < Len(st.a) THEN [st EXCEPT !.ia = @ + 1] ELSE st
AdvanceB(st) == IF st.ib < Len(st.b) THEN [st EXCEPT !.ib = @ + 1] ELSE st

\* One entry of a call's pull log.
Pulled(side, got) == [side |-> side, got |-> got]

\* What one call of next amounts to: the combinator afterwards, the value
\* returned, the upstream pulls and the user-logic invocations, in order.
Returned(st, out, pulls, tests) ==
    [st |-> st, out |-> out, pulls |-> pulls, tests |-> tests]

\* Predicate::test and Converter::convert: user logic, which may fail.
PredicateError == "predicate failed"
ConverterError == "converter failed"

Predicates == {"is_one", "not_one", "fails_on_two"}

test(pred, mv) ==
    IF pred = "is_one" THEN Ok(mv = MetaValInt(1))
    ELSE IF pred = "not_one" THEN Ok(mv # MetaValInt(1))
    ELSE IF mv = MetaValInt(2) THEN Err(PredicateError)
    ELSE Ok(mv = MetaValInt(1))

Converters == {"wrap", "wrap_fails_on_two"}

convert(conv, mv) ==
    IF conv = "wrap_fails_on_two" /\ mv = MetaValInt(2)
    THEN Err(ConverterError)
    ELSE Ok(MetaValSeq(<<mv>>))

\* StepByEmitter::step: true on the first call and on every n-th after it.
StepByEmitterStep(st) == st.step % st.n = 0

\* Flatten::next.
\* A slip: an empty sequence ends the call with None.
RECURSIVE FlattenNext_stop_at_empty(_, _)
FlattenNext_stop_at_empty(st, pulls) ==
    IF st.queue # <<>>
    THEN Returned([st EXCEPT !.queue = Tail(@)], Some(Ok(Head(st.queue))),
                  pulls, <<>>)
    ELSE LET got == RawNextA(st)
             p1 == Append(pulls, Pulled("a", got))
         IN IF ~got.some THEN Returned(AdvanceA(st), None, p1, <<>>)
            ELSE IF got.val.ok /\ IsSeq(got.val.val)
            THEN IF got.val.val.seq = <<>>
                 THEN Returned(AdvanceA(st), None, p1, <<>>)
                 ELSE FlattenNext_stop_at_empty(
                        [AdvanceA(st) EXCEPT !.queue = @ \o got.val.val.seq], p1)
            ELSE Returned(AdvanceA(st), got, p1, <<>>)

\* A slip: a dequeued element goes through the Sequence check again.
RECURSIVE FlattenNext_deep(_, _)
FlattenNext_deep(st, pulls) ==
    IF st.queue # <<>>
    THEN IF IsSeq(Head(st.queue))
         THEN FlattenNext_deep(
                [st EXCEPT !.queue = Head(st.queue).seq \o Tail(@)], pulls)
         ELSE Returned([st EXCEPT !.queue = Tail(@)],
                       Some(Ok(Head(st.queue))), pulls, <<>>)
    ELSE LET got == RawNextA(st)
             p1 == Append(pulls, Pulled("a", got))
         IN IF ~got.some THEN Returned(AdvanceA(st), None, p1, <<>>)
            ELSE IF got.val.ok /\ IsSeq(got.val.val)
            THEN FlattenNext_deep(
                   [AdvanceA(st) EXCEPT !.queue = @ \o got.val.val.seq], p1)
            ELSE Returned(AdvanceA(st), got, p1, <<>>)

RECURSIVE FlattenNext(_, _)
FlattenNext(st, pulls) ==
    IF st.queue # <<>>
    THEN Returned([st EXCEPT !.queue = Tail(@)], Some(Ok(Head(st.queue))),
                  pulls, <<>>)
    ELSE LET got == RawNextA(st)
             p1 == Append(pulls, Pulled("a", got))
         IN IF ~got.some THEN Returned(AdvanceA(st), None, p1, <<>>)
            ELSE IF got.val.ok /\ IsSeq(got.val.val)
            THEN FlattenNext(
                   [AdvanceA(st) EXCEPT !.queue = @ \o got.val.val.seq], p1)
            ELSE Returned(AdvanceA(st), got, p1, <<>>)

\* Dedup::next.
\* A slip: the value is compared with everything yielded before.
RECURSIVE DedupNext_all_seen(_, _)
DedupNext_all_seen(st, pulls) ==
    LET got == RawNextA(st)
        p1 == Append(pulls, Pulled("a", got))
    IN IF ~got.some THEN Returned(AdvanceA(st), None, p1, <<>>)
       ELSE IF ~got.val.ok THEN Returned(AdvanceA(st), got, p1, <<>>)
       ELSE IF got.val.val \in st.seen
       THEN DedupNext_all_seen(AdvanceA(st), p1)
       ELSE Returned([AdvanceA(st) EXCEPT !.seen = @ \cup {got.val.val},
                                          !.last = Some(got.val.val)],
                     got, p1, <<>>)

\* A slip: a duplicate, once left out, is forgotten.
RECURSIVE DedupNext_forgets(_, _)
DedupNext_forgets(st, pulls) ==
    LET got == RawNextA(st)
        p1 == Append(pulls, Pulled("a", got))
    IN IF ~got.some THEN Returned(AdvanceA(st), None, p1, <<>>)
       ELSE IF ~got.val.ok THEN Returned(AdvanceA(st), got, p1, <<>>)
       ELSE IF Some(got.val.val) = st.last
       THEN DedupNext_forgets([AdvanceA(st) EXCEPT !.last = None], p1)
       ELSE Returned([AdvanceA(st) EXCEPT !.last = Some(got.val.val)],
                     got, p1, <<>>)

RECURSIVE DedupNext(_, _)
DedupNext(st, pulls) ==
    LET got == RawNextA(st)
        p1 == Append(pulls, Pulled("a", got))
    IN IF ~got.some THEN Returned(AdvanceA(st), None, p1, <<>>)
       ELSE IF ~got.val.ok THEN Returned(AdvanceA(st), got, p1, <<>>)
       ELSE IF Some(got.val.val) = st.last
       THEN DedupNext(AdvanceA(st), p1)
       ELSE Returned([AdvanceA(st) EXCEPT !.last = Some(got.val.val)],
                     got, p1, <<>>)

\* Dedup over Raw::new(v), pulled until it returns None: the items yielded.
RECURSIVE DedupDrain(_, _)
DedupDrain(st, acc) ==
    LET r == DedupNext(st, <<>>) IN
    IF r.out.some THEN DedupDrain(r.st, Append(acc, r.out.val)) ELSE acc

\* Unique::next.
\* A slip: only the value yielded last is looked up.
RECURSIVE UniqueNext_last_only(_, _)
UniqueNext_last_only(st, pulls) ==
    LET got == RawNextA(st)
        p1 == Append(pulls, Pulled("a", got))
    IN IF ~got.some THEN Returned(AdvanceA(st), None, p1, <<>>)
       ELSE IF ~got.val.ok THEN Returned(AdvanceA(st), got, p1, <<>>)
       ELSE IF Some(got.val.val) = st.last
       THEN UniqueNext_last_only(AdvanceA(st), p1)
       ELSE Returned([AdvanceA(st) EXCEPT !.seen = @ \cup {got.val.val},
                                          !.last = Some(got.val.val)],
                     got, p1, <<>>)

RECURSIVE UniqueNext(_, _)
UniqueNext(st, pulls) ==
    LET got == RawNextA(st)
        p1 == Append(pulls, Pulled("a", got))
    IN IF ~got.some THEN Returned(AdvanceA(st), None, p1, <<>>)
       ELSE IF ~got.val.ok THEN Returned(AdvanceA(st), got, p1, <<>>)
       ELSE IF got.val.val \in st.seen
       THEN UniqueNext(AdvanceA(st), p1)
       ELSE Returned([AdvanceA(st) EXCEPT !.seen = @ \cup {got.val.val}],
                     got, p1, <<>>)

\* Filter::next.
\* A slip: the predicate is asked about every item, errors included, before
\* an error is returned.
RECURSIVE FilterNext_tests_errors(_, _, _)
FilterNext_tests_errors(st, pulls, tests) ==
    LET got == RawNextA(st)
        p1 == Append(pulls, Pulled("a", got))
    IN IF ~got.some THEN Returned(AdvanceA(st), None, p1, tests)
       ELSE IF got.val.ok
       THEN LET mv == got.val.val
                t == test(st.pred, mv)
                t1 == Append(tests, mv)
            IN IF ~t.ok THEN Returned(AdvanceA(st), Some(Err(t.err)), p1, t1)
               ELSE IF t.val THEN Returned(AdvanceA(st), got, p1, t1)
               ELSE FilterNext_tests_errors(AdvanceA(st), p1, t1)
       ELSE Returned(AdvanceA(st), got, p1, Append(tests, MetaValInt(0)))

RECURSIVE FilterNext(_, _, _)
FilterNext(st, pulls, tests) ==
    LET got == RawNextA(st)
        p1 == Append(pulls, Pulled("a", got))
    IN IF ~got.some THEN Returned(AdvanceA(st), None, p1, tests)
       ELSE IF got.val.ok
       THEN LET mv == got.val.val
                t == test(st.pred, mv)
                t1 == Append(tests, mv)
            IN IF ~t.ok THEN Returned(AdvanceA(st), Some(Err(t.err)), p1, t1)
               ELSE IF t.val THEN Returned(AdvanceA(st), got, p1, t1)
               ELSE FilterNext(AdvanceA(st), p1, t1)
       ELSE Returned(AdvanceA(st), got, p1, tests)

\* Map::next.
MapNext(st) ==
    LET got == RawNextA(st)
        p1 == <<Pulled("a", got)>>
    IN IF ~got.some THEN Returned(AdvanceA(st), None, p1, <<>>)
       ELSE IF got.val.ok
       THEN Returned(AdvanceA(st), Some(convert(st.pred, got.val.val)), p1,
                     <<got.val.val>>)
       ELSE Returned(AdvanceA(st), got, p1, <<>>)

\* StepBy::next.  The upstream item is taken first; the emitter steps only
\* when there is one.
\* A slip: the emitter's answer is not looked at.
RECURSIVE StepByNext_emits_all(_, _)
StepByNext_emits_all(st, pulls) ==
    LET got == RawNextA(st)
        p1 == Append(pulls, Pulled("a", got))
    IN IF ~got.some THEN Returned(AdvanceA(st), None, p1, <<>>)
       ELSE Returned([AdvanceA(st) EXCEPT !.step = @ + 1], got, p1, <<>>)

RECURSIVE StepByNext(_, _)
StepByNext(st, pulls) ==
    LET got == RawNextA(st)
        p1 == Append(pulls, Pulled("a", got))
    IN IF ~got.some THEN Returned(AdvanceA(st), None, p1, <<>>)
       ELSE LET emit == StepByEmitterStep(st)
                st1 == [AdvanceA(st) EXCEPT !.step = @ + 1]
            IN IF ~got.val.ok THEN Returned(st1, got, p1, <<>>)
               ELSE IF emit THEN Returned(st1, got, p1, <<>>)
               ELSE StepByNext(st1, p1)

\* A slip: the first producer is asked again on every call.
ChainNext_reprobes(st) ==
    LET got == RawNextA(st) IN
    IF ~got.some
    THEN LET st1 == [AdvanceA(st) EXCEPT !.flag = TRUE] IN
         Returned(AdvanceB(st1), RawNextB(st1),
                  <<Pulled("a", got), Pulled("b", RawNextB(st1))>>, <<>>)
    ELSE Returned(AdvanceA(st), got, <<Pulled("a", got)>>, <<>>)

\* Chain::next.
ChainNext(st) ==
    IF ~st.flag
    THEN LET got == RawNextA(st) IN
         IF ~got.some
         THEN LET st1 == [AdvanceA(st) EXCEPT !.flag = TRUE] IN
              Returned(AdvanceB(st1), RawNextB(st1),
                       <<Pulled("a", got), Pulled("b", RawNextB(st1))>>, <<>>)
         ELSE Returned(AdvanceA(st), got, <<Pulled("a", got)>>, <<>>)
    ELSE Returned(AdvanceB(st), RawNextB(st),
                  <<Pulled("b", RawNextB(st))>>, <<>>)

\* A slip: a left item without a partner is reported as an error.
ZipNext_unpaired_is_error(st) ==
    LET res_a == RawNextA(st)
        st1 == AdvanceA(st)
    IN IF ~res_a.some THEN Returned(st1, None, <<Pulled("a", res_a)>>, <<>>)
       ELSE LET res_b == RawNextB(st1)
                st2 == AdvanceB(st1)
                p2 == <<Pulled("a", res_a), Pulled("b", res_b)>>
            IN IF ~res_b.some
               THEN Returned(st2, Some(Err("unpaired")), p2, <<>>)
               ELSE IF ~res_a.val.ok THEN Returned(st2, res_a, p2, <<>>)
               ELSE IF ~res_b.val.ok THEN Returned(st2, res_b, p2, <<>>)
               ELSE Returned(st2,
                      Some(Ok(MetaValSeq(<<res_a.val.val, res_b.val.val>>))),
                      p2, <<>>)

\* A slip: the pair is built right side first.
ZipNext_swapped(st) ==
    LET res_a == RawNextA(st)
        st1 == AdvanceA(st)
    IN IF ~res_a.some THEN Returned(st1, None, <<Pulled("a", res_a)>>, <<>>)
       ELSE LET res_b == RawNextB(st1)
                st2 == AdvanceB(st1)
                p2 == <<Pulled("a", res_a), Pulled("b", res_b)>>
            IN IF ~res_b.some THEN Returned(st2, None, p2, <<>>)
               ELSE IF ~res_a.val.ok THEN Returned(st2, res_a, p2, <<>>)
               ELSE IF ~res_b.val.ok THEN Returned(st2, res_b, p2, <<>>)
               ELSE Returned(st2,
                      Some(Ok(MetaValSeq(<<res_b.val.val, res_a.val.val>>))),
                      p2, <<>>)

\* Zip::next.
ZipNext(st) ==
    LET res_a == RawNextA(st)
        st1 == AdvanceA(st)
    IN IF ~res_a.some THEN Returned(st1, None, <<Pulled("a", res_a)>>, <<>>)
       ELSE LET res_b == RawNextB(st1)
                st2 == AdvanceB(st1)
                p2 == <<Pulled("a", res_a), Pulled("b", res_b)>>
            IN IF ~res_b.some THEN Returned(st2, None, p2, <<>>)
               ELSE IF ~res_a.val.ok THEN Returned(st2, res_a, p2, <<>>)
               ELSE IF ~res_b.val.ok THEN Returned(st2, res_b, p2, <<>>)
               ELSE Returned(st2,
                      Some(Ok(MetaValSeq(<<res_a.val.val, res_b.val.val>>))),
                      p2, <<>>)

\* A slip: an error met while discarding does not use up a position.
RECURSIVE SkipNext_errors_uncounted(_, _)
SkipNext_errors_uncounted(st, pulls) ==
    LET got == RawNextA(st)
        p1 == Append(pulls, Pulled("a", got))
    IN IF st.n > 0
       THEN LET st1 == [AdvanceA(st) EXCEPT !.n = @ - 1] IN
            IF ~got.some THEN Returned(st1, None, p1, <<>>)
            ELSE IF ~got.val.ok THEN Returned(AdvanceA(st), got, p1, <<>>)
            ELSE SkipNext_errors_uncounted(st1, p1)
       ELSE Returned(AdvanceA(st), got, p1, <<>>)

\* A slip: the items to skip are dropped whatever they are.
RECURSIVE SkipNext_drops_errors(_, _)
SkipNext_drops_errors(st, pulls) ==
    LET got == RawNextA(st)
        p1 == Append(pulls, Pulled("a", got))
    IN IF st.n > 0
       THEN LET st1 == [AdvanceA(st) EXCEPT !.n = @ - 1] IN
            IF ~got.some THEN Returned(st1, None, p1, <<>>)
            ELSE SkipNext_drops_errors(st1, p1)
       ELSE Returned(AdvanceA(st), got, p1, <<>>)

\* Skip::next.
RECURSIVE SkipNext(_, _)
SkipNext(st, pulls) ==
    LET got == RawNextA(st)
        p1 == Append(pulls, Pulled("a", got))
    IN IF st.n > 0
       THEN LET st1 == [AdvanceA(st) EXCEPT !.n = @ - 1] IN
            IF ~got.some THEN Returned(st1, None, p1, <<>>)
            ELSE IF ~got.val.ok THEN Returned(st1, got, p1, <<>>)
            ELSE SkipNext(st1, p1)
       ELSE Returned(AdvanceA(st), got, p1, <<>>)

\* A slip: only the items obtained are counted, not the calls made.
TakeNext_counts_items(st) ==
    IF st.n > 0
    THEN Returned(IF RawNextA(st).some
                  THEN [AdvanceA(st) EXCEPT !.n = @ - 1] ELSE st,
                  RawNextA(st), <<Pulled("a", RawNextA(st))>>, <<>>)
    ELSE Returned(st, None, <<>>, <<>>)

\* Take::next.
TakeNext(st) ==
    IF st.n > 0
    THEN Returned([AdvanceA(st) EXCEPT !.n = @ - 1], RawNextA(st),
                  <<Pulled("a", RawNextA(st))>>, <<>>)
    ELSE Returned(st, None, <<>>, <<>>)

\* A slip: the switch is never turned off, so the predicate goes on
\* deciding.
RECURSIVE SkipWhileNext_keeps_testing(_, _, _)
SkipWhileNext_keeps_testing(st, pulls, tests) ==
    LET got == RawNextA(st)
        p1 == Append(pulls, Pulled("a", got))
    IN IF ~got.some THEN Returned(AdvanceA(st), None, p1, tests)
       ELSE IF ~got.val.ok THEN Returned(AdvanceA(st), got, p1, tests)
       ELSE LET mv == got.val.val
                t == test(st.pred, mv)
                t1 == Append(tests, mv)
            IN IF ~t.ok
               THEN Returned(AdvanceA(st), Some(Err(t.err)), p1, t1)
               ELSE IF t.val
                    THEN SkipWhileNext_keeps_testing(AdvanceA(st), p1, t1)
                    ELSE Returned(AdvanceA(st), got, p1, t1)

\* SkipWhile::next.
RECURSIVE SkipWhileNext(_, _, _)
SkipWhileNext(st, pulls, tests) ==
    LET got == RawNextA(st)
        p1 == Append(pulls, Pulled("a", got))
    IN IF st.flag
       THEN IF ~got.some THEN Returned(AdvanceA(st), None, p1, tests)
            ELSE IF ~got.val.ok THEN Returned(AdvanceA(st), got, p1, tests)
            ELSE LET mv == got.val.val
                     t == test(st.pred, mv)
                     t1 == Append(tests, mv)
                 IN IF ~t.ok
                    THEN Returned(AdvanceA(st), Some(Err(t.err)), p1, t1)
                    ELSE IF t.val THEN SkipWhileNext(AdvanceA(st), p1, t1)
                    ELSE Returned([AdvanceA(st) EXCEPT !.flag = FALSE], got,
                                  p1, t1)
       ELSE Returned(AdvanceA(st), got, p1, tests)

\* TakeWhile::next.
TakeWhileNext(st) ==
    IF st.flag
    THEN LET got == RawNextA(st)
             p1 == <<Pulled("a", got)>>
         IN IF ~got.some THEN Returned(AdvanceA(st), None, p1, <<>>)
            ELSE IF got.val.ok
            THEN LET mv == got.val.val
                     t == test(st.pred, mv)
                 IN IF ~t.ok
                    THEN Returned(AdvanceA(st), Some(Err(t.err)), p1, <<mv>>)
                    ELSE IF t.val THEN Returned(AdvanceA(st), got, p1, <<mv>>)
                    ELSE Returned([AdvanceA(st) EXCEPT !.flag = FALSE], None,
                                  p1, <<mv>>)
            ELSE Returned(AdvanceA(st), got, p1, <<>>)
    ELSE Returned(st, None, <<>>, <<>>)

\* InBetween::next.
InBetweenNext(st) ==
    LET st1 == [st EXCEPT !.flag = ~@] IN
    IF st1.flag
    THEN Returned(AdvanceA(st1), RawNextA(st1),
                  <<Pulled("a", RawNextA(st1))>>, <<>>)
    ELSE Returned(st1, Some(Ok(st1.mv)), <<>>, <<>>)

\* A slip: no falling back to the other side when the preferred one is
\* exhausted.
MixNext_no_fallback(st) ==
    LET st1 == [st EXCEPT !.flag = ~@]
        ga == RawNextA(st1)
        gb == RawNextB(st1)
    IN IF st1.flag
       THEN Returned(AdvanceA(st1), ga, <<Pulled("a", ga)>>, <<>>)
       ELSE Returned(AdvanceB(st1), gb, <<Pulled("b", gb)>>, <<>>)

\* Mix::next.
MixNext(st) ==
    LET st1 == [st EXCEPT !.flag = ~@]
        ga == RawNextA(st1)
        gb == RawNextB(st1)
    IN IF st1.flag
       THEN IF ga.some
            THEN Returned(AdvanceA(st1), ga, <<Pulled("a", ga)>>, <<>>)
            ELSE Returned(AdvanceB(st1), gb,
                          <<Pulled("a", ga), Pulled("b", gb)>>, <<>>)
       ELSE IF gb.some
            THEN Returned(AdvanceB(st1), gb, <<Pulled("b", gb)>>, <<>>)
            ELSE Returned(AdvanceA(st1), ga,
                          <<Pulled("b", gb), Pulled("a", ga)>>, <<>>)

----------------------------------------------------------------------------
(* SpecProducers: one combinator over Raw upstreams, pulled call by call.  *)

MaxItems == 3

Kinds1 ==
    {"Flatten", "Dedup", "Unique", "Filter", "Map", "StepBy", "Skip", "Take",
     "SkipWhile", "TakeWhile", "InBetween"}
Kinds2 == {"Chain", "Zip", "Mix"}

\* Combinator::new: the upstreams untouched, and the combinator's own fields
\* as its constructor sets them.
\* n0 keeps the count given to new, which Skip and
\* Take count down in n.
NewProducer(kind, a, b, n, pred) ==
    [kind |-> kind, a |-> a, ia |-> 0, b |-> b, ib |-> 0,
     n |-> n, n0 |-> n, step |-> 0,
     flag |-> kind \in {"SkipWhile", "TakeWhile"},
     queue |-> <<>>, last |-> None, seen |-> {},
     pred |-> pred, mv |-> MetaValInt(0)]

Vecs(S, n) == UNION { [1..k -> S] : k \in 0..n }

\* The items the upstreams are made of.  Errors of the two sides differ.
ItemsA == { Ok(MetaValInt(1)), Ok(MetaValInt(2)), Err("ea") }
ItemsB == { Ok(MetaValInt(1)), Ok(MetaValInt(2)), Err("eb") }
ItemsNested ==
    { Ok(MetaValInt(1)), Ok(MetaValSeq(<<>>)),
      Ok(MetaValSeq(<<MetaValInt(1), MetaValInt(2)>>)),
      Ok(MetaValSeq(<<MetaValSeq(<<MetaValInt(1)>>)>>)),
      Ok(MetaValSeq(<<MetaValSeq(<<>>), MetaValInt(2)>>)),
      Err("ea") }

NoPred == "-"

Producers ==
    { NewProducer("Flatten", a, <<>>, 0, NoPred) :
        a \in Vecs(ItemsNested, MaxItems) }
    \cup { NewProducer(k, a, <<>>, 0, NoPred) :
             k \in {"Dedup", "Unique", "InBetween"}, a \in Vecs(ItemsA, MaxItems) }
    \cup { NewProducer(k, a, <<>>, 0, p) :
             k \in {"Filter", "SkipWhile", "TakeWhile"},
             a \in Vecs(ItemsA, MaxItems), p \in Predicates }
    \cup { NewProducer("Map", a, <<>>, 0, c) :
             a \in Vecs(ItemsA, MaxItems), c \in Converters }
    \cup { NewProducer("StepBy", a, <<>>, n, NoPred) :
             a \in Vecs(ItemsA, MaxItems), n \in 1..MaxItems }
    \cup { NewProducer(k, a, <<>>, n, NoPred) :
             k \in {"Skip", "Take"}, a \in Vecs(ItemsA, MaxItems),
             n \in 0..MaxItems }
    \cup { NewProducer(k, a, b, 0, NoPred) :
             k \in Kinds2, a \in Vecs(ItemsA, MaxItems),
             b \in Vecs(ItemsB, MaxItems - 1) }

FsRest ==
    /\ fs = FsIdle
    /\ InitSourcer
    /\ InitSource
    /\ ProcIdle
    /\ SelIdle
    /\ DirIdle

InitProducers ==
    /\ FsRest
    /\ NumIdle
    /\ ImplIdle
    /\ prod \in Producers
    /\ prodOut = <<>>
    /\ prodLog = <<>>

\* One call of next: the combinator moves on, the value returned and what
\* the call did are recorded.
CallNext(r) ==
    /\ CountNone(prodOut) < MaxNone
    /\ prod' = r.st
    /\ prodOut' = Append(prodOut, r.out)
    /\ prodLog' = Append(prodLog, [pulls |-> r.pulls, tests |-> r.tests])
    /\ UNCHANGED <<fs, sourcerVars, sourceVars, procVars, selVars, dirVars, numVars, implVars>>

CallFlattenNext == prod.kind = "Flatten" /\ CallNext(FlattenNext(prod, <<>>))
CallDedupNext == prod.kind = "Dedup" /\ CallNext(DedupNext(prod, <<>>))
CallUniqueNext == prod.kind = "Unique" /\ CallNext(UniqueNext(prod, <<>>))
CallFilterNext == prod.kind = "Filter" /\ CallNext(FilterNext(prod, <<>>, <<>>))
CallMapNext == prod.kind = "Map" /\ CallNext(MapNext(prod))
CallStepByNext == prod.kind = "StepBy" /\ CallNext(StepByNext(prod, <<>>))
CallChainNext == prod.kind = "Chain" /\ CallNext(ChainNext(prod))
CallZipNext == prod.kind = "Zip" /\ CallNext(ZipNext(prod))
CallSkipNext == prod.kind = "Skip" /\ CallNext(SkipNext(prod, <<>>))
CallTakeNext == prod.kind = "Take" /\ CallNext(TakeNext(prod))
CallSkipWhileNext ==
    prod.kind = "SkipWhile" /\ CallNext(SkipWhileNext(prod, <<>>, <<>>))
CallTakeWhileNext == prod.kind = "TakeWhile" /\ CallNext(TakeWhileNext(prod))
CallInBetweenNext == prod.kind = "InBetween" /\ CallNext(InBetweenNext(prod))
CallMixNext == prod.kind = "Mix" /\ CallNext(MixNext(prod))

NextProducers ==
    \/ CallFlattenNext
    \/ CallDedupNext
    \/ CallUniqueNext
    \/ CallFilterNext
    \/ CallMapNext
    \/ CallStepByNext
    \/ CallChainNext
    \/ CallZipNext
    \/ CallSkipNext
    \/ CallTakeNext
    \/ CallSkipWhileNext
    \/ CallTakeWhileNext
    \/ CallInBetweenNext
    \/ CallMixNext

SpecProducers == InitProducers /\ [][NextProducers]_vars

----------------------------------------------------------------------------
(* Claims about the combinators (SpecProducers).                           *)

\* The error items call i pulled from upstream.
ErrorsPulled(i) ==
    { prodLog[i].pulls[k].got :
        k \in { j \in DOMAIN prodLog[i].pulls :
                  /\ prodLog[i].pulls[j].got.some
                  /\ ~prodLog[i].pulls[j].got.val.ok } }

\* C13: no single-upstream or concatenating combinator silently drops an
\* error: for Filter, Map, Flatten, Dedup, Unique, StepBy, Skip, Take,
\* SkipWhile, TakeWhile, Chain, InBetween and Mix, every error item pulled
\* from an upstream producer is returned, unchanged, by the very next() call
\* that pulled it, errors at positions Skip or StepBy would discard included.
C13_NoErrorDropped ==
    prod.kind \in (Kinds1 \cup {"Chain", "Mix"}) =>
      \A i \in DOMAIN prodLog :
        \A e \in ErrorsPulled(i) : prodOut[i] = e

\* Skip(2) over an upstream that starts with an error: the error sits at a
\* position to be skipped and is returned all the same.
C13_Witness ==
    /\ prod.kind = "Skip"
    /\ prod.a = <<Err("ea"), Ok(MetaValInt(1)), Ok(MetaValInt(2))>>
    /\ Len(prodOut) = 2
    /\ prodOut[1] = Some(Err("ea"))
    /\ prodOut[2] = Some(Ok(MetaValInt(2)))

IsOkPull(p) == p.got.some /\ p.got.val.ok

\* The values of the Ok items call i pulled, in order.
OkPulled(i) ==
    LET okp == SelectSeq(prodLog[i].pulls, IsOkPull)
    IN [k \in DOMAIN okp |-> okp[k].got.val.val]

\* SkipWhile and TakeWhile examine items until the predicate has answered
\* false once.
Examining(i) ==
    \A j \in 1..(i - 1) :
      \A k \in DOMAIN prodLog[j].tests :
        test(prod.pred, prodLog[j].tests[k]) # Ok(FALSE)

\* C14: Filter, Map, SkipWhile and TakeWhile never invoke their predicate or
\* converter on an error item: the user logic is called exactly once per Ok
\* item pulled while the combinator is still examining items, and zero times
\* for an Err item, which is returned verbatim.
C14_UserLogicOnOkOnly ==
    prod.kind \in {"Filter", "Map", "SkipWhile", "TakeWhile"} =>
      \A i \in DOMAIN prodLog :
        /\ prodLog[i].tests =
             IF prod.kind \in {"Filter", "Map"} \/ Examining(i)
             THEN OkPulled(i) ELSE <<>>
        /\ \A e \in ErrorsPulled(i) : prodOut[i] = e

\* Filter for 1 over an error, a 2 and a 1: the first call returns the error
\* without a test, the second tests the 2 and the 1 and returns the 1.
C14_Witness ==
    /\ prod.kind = "Filter"
    /\ prod.pred = "is_one"
    /\ prod.a = <<Err("ea"), Ok(MetaValInt(2)), Ok(MetaValInt(1))>>
    /\ Len(prodOut) = 2
    /\ prodOut[1] = Some(Err("ea"))
    /\ prodLog[1].tests = <<>>
    /\ prodLog[2].tests = <<MetaValInt(2), MetaValInt(1)>>
    /\ prodOut[2] = Some(Ok(MetaValInt(1)))

ErrorFree(v) == \A i \in DOMAIN v : v[i].ok

Min(x, y) == IF x <= y THEN x ELSE y

\* C15: Zip over two error-free producers of lengths m and n yields exactly
\* min(m, n) elements, the k-th being the two-element Sequence [a_k, b_k],
\* and then None; it stops as soon as either side is exhausted.
C15_ZipPairs ==
    (prod.kind = "Zip" /\ ErrorFree(prod.a) /\ ErrorFree(prod.b)) =>
      \A i \in DOMAIN prodOut :
        prodOut[i] =
          IF i <= Min(Len(prod.a), Len(prod.b))
          THEN Some(Ok(MetaValSeq(<<prod.a[i].val, prod.b[i].val>>)))
          ELSE None

\* Three items zipped with one: one pair, then None.
C15_Witness ==
    /\ prod.kind = "Zip"
    /\ prod.a = <<Ok(MetaValInt(1)), Ok(MetaValInt(2)), Ok(MetaValInt(1))>>
    /\ prod.b = <<Ok(MetaValInt(2))>>
    /\ prodOut = <<Some(Ok(MetaValSeq(<<MetaValInt(1), MetaValInt(2)>>))), None>>

\* The error call i pulled from the given side, if any.
ErrorPulledFrom(i, side) ==
    { prodLog[i].pulls[k].got :
        k \in { j \in DOMAIN prodLog[i].pulls :
                  /\ prodLog[i].pulls[j].side = side
                  /\ prodLog[i].pulls[j].got.some
                  /\ ~prodLog[i].pulls[j].got.val.ok } }

\* C16: in Zip, an error on either side for a given step yields that error
\* (the left one when both sides error in the same step), and no error item
\* pulled from either side is dropped other than a right-side error
\* superseded by a left-side error of the same step; a left-side error
\* pulled in the step in which the right side turns out to be exhausted is
\* still emitted.
C16_ZipErrors ==
    prod.kind = "Zip" =>
      \A i \in DOMAIN prodLog :
        /\ \A e \in ErrorPulledFrom(i, "a") : prodOut[i] = e
        /\ \A e \in ErrorPulledFrom(i, "b") :
             \/ prodOut[i] = e
             \/ /\ ErrorPulledFrom(i, "a") # {}
                /\ prodOut[i] \in ErrorPulledFrom(i, "a")

\* The items the calls so far have yielded.
Yielded ==
    LET some == SelectSeq(prodOut, IsSome)
    IN [k \in DOMAIN some |-> some[k].val]

\* One upstream item with one nesting level removed.
OneLevel(item) ==
    IF item.ok /\ IsSeq(item.val)
    THEN [k \in DOMAIN item.val.seq |-> Ok(item.val.seq[k])]
    ELSE <<item>>

\* The first n upstream items, each with one nesting level removed.
RECURSIVE OneLevelOfFirst(_, _)
OneLevelOfFirst(v, n) ==
    IF n = 0 THEN <<>> ELSE OneLevelOfFirst(v, n - 1) \o OneLevel(v[n])

\* C17: Flatten removes exactly one nesting level per upstream item: a
\* non-Sequence item is yielded unchanged, a Sequence item is replaced by its
\* direct elements in order (an empty Sequence contributes nothing), and an
\* element that is itself a Sequence is yielded as a Sequence value without
\* being opened.  Hence Flatten over an upstream without Sequence values is
\* the identity.
C17_FlattenOneLevel ==
    prod.kind = "Flatten" =>
      /\ Yielded \o [k \in DOMAIN prod.queue |-> Ok(prod.queue[k])]
           = OneLevelOfFirst(prod.a, prod.ia)
      /\ (\A i \in DOMAIN prod.a : ~(prod.a[i].ok /\ IsSeq(prod.a[i].val)))
           => Yielded = SubSeq(prod.a, 1, prod.ia)

\* An empty sequence, a sequence holding a sequence, and an integer: the
\* inner sequence comes out as a value, then the integer, then None.
C17_Witness ==
    /\ prod.kind = "Flatten"
    /\ prod.a = << Ok(MetaValSeq(<<>>)),
                   Ok(MetaValSeq(<<MetaValSeq(<<MetaValInt(1)>>)>>)),
                   Ok(MetaValInt(1)) >>
    /\ prodOut = << Some(Ok(MetaValSeq(<<MetaValInt(1)>>))),
                    Some(Ok(MetaValInt(1))), None >>

\* C18: Flatten is effectively recursive: elements spliced into the pending
\* queue are re-entered through the Sequence check when dequeued, so Flatten
\* never yields an Ok item that is a Sequence value, whatever the nesting
\* depth of the upstream items.
C18_FlattenNeverYieldsSeq ==
    prod.kind = "Flatten" =>
      \A i \in DOMAIN Yielded : Yielded[i].ok => ~IsSeq(Yielded[i].val)

----------------------------------------------------------------------------
(* SpecFlatten: Flatten pulled again and again by its consumer.            *)

InitFlatten ==
    /\ FsRest
    /\ NumIdle
    /\ ImplIdle
    /\ prod \in { pr \in Producers : pr.kind = "Flatten" }
    /\ prodOut = <<>>
    /\ prodLog = <<>>

\* The consumer keeps calling next until it has seen the end.
SpecFlatten ==
    InitFlatten /\ [][CallFlattenNext]_vars /\ WF_vars(CallFlattenNext)

\* C19: over a finite upstream whose Sequence items are finite (runs of
\* empty Sequences included), repeated next() calls eventually return None,
\* after every queued element has been emitted; None is never returned while
\* the pending queue is non-empty.
C19_FlattenTerminates ==
    /\ [](\A i \in DOMAIN prodOut :
            prodOut[i] = None =>
              /\ prod.queue = <<>>
              /\ prod.ia = Len(prod.a)
              /\ Yielded = OneLevelOfFirst(prod.a, Len(prod.a)))
    /\ <>(prodOut # <<>> /\ Last(prodOut) = None)

\* Two empty sequences in a row, then a sequence of two: both elements come
\* out, then None.
C19_Witness ==
    /\ prod.kind = "Flatten"
    /\ prod.a = << Ok(MetaValSeq(<<>>)), Ok(MetaValSeq(<<>>)),
                   Ok(MetaValSeq(<<MetaValInt(1), MetaValInt(2)>>)) >>
    /\ prodOut = <<Some(Ok(MetaValInt(1))), Some(Ok(MetaValInt(2))), None>>

----------------------------------------------------------------------------
(* Claims about Dedup (SpecProducers).                                     *)

\* The first item of every maximal run of equal items among the first n.
RECURSIVE RunHeads(_, _)
RunHeads(v, n) ==
    IF n = 0 THEN <<>>
    ELSE RunHeads(v, n - 1)
           \o (IF n = 1 \/ v[n] # v[n - 1] THEN <<v[n]>> ELSE <<>>)

\* C20: Dedup performs adjacent-only deduplication: over an error-free
\* upstream it yields an item iff it differs structurally from the
\* immediately preceding yielded item, so the output keeps the first item of
\* every maximal run of equal items, never contains two adjacent equal
\* items, and still contains a value again when it recurs after a different
\* value.
C20_DedupAdjacentOnly ==
    (prod.kind = "Dedup" /\ ErrorFree(prod.a)) =>
      /\ Yielded = RunHeads(prod.a, prod.ia)
      /\ \A i \in 1..(Len(Yielded) - 1) : Yielded[i] # Yielded[i + 1]

\* 1, 1, 2: the second 1 is left out.
C20_Witness ==
    /\ prod.kind = "Dedup"
    /\ prod.a = <<Ok(MetaValInt(1)), Ok(MetaValInt(1)), Ok(MetaValInt(2))>>
    /\ prodOut = <<Some(Ok(MetaValInt(1))), Some(Ok(MetaValInt(2))), None>>

\* A fresh Dedup over the given items.
DedupOver(v) == NewProducer("Dedup", v, <<>>, 0, NoPred)

\* C21: Dedup is idempotent: for every input sequence, error items
\* included, Dedup(Dedup(s)) yields the same sequence of items as Dedup(s).
C21_DedupIdempotent ==
    prod.kind = "Dedup" =>
      DedupDrain(DedupOver(Yielded), <<>>) = Yielded

\* 1, error, 1: the second 1 is left out although an error lies between,
\* and a second Dedup changes nothing.
C21_Witness ==
    /\ prod.kind = "Dedup"
    /\ prod.a = <<Ok(MetaValInt(1)), Err("ea"), Ok(MetaValInt(1))>>
    /\ prodOut = <<Some(Ok(MetaValInt(1))), Some(Err("ea")), None>>
    /\ DedupDrain(DedupOver(Yielded), <<>>) = Yielded

----------------------------------------------------------------------------
(* Claims about Unique, StepBy, Chain, Skip and Take (SpecProducers).      *)

IsOkItem(item) == item.ok

\* The values of the Ok items of v, in order.
OkValues(v) ==
    LET oks == SelectSeq(v, IsOkItem)
    IN [k \in DOMAIN oks |-> oks[k].val]

\* The upstream items consumed so far.
Consumed == SubSeq(prod.a, 1, prod.ia)

\* The first occurrence of each distinct value among the first n of v.
RECURSIVE FirstOccurrences(_, _)
FirstOccurrences(v, n) ==
    IF n = 0 THEN <<>>
    ELSE FirstOccurrences(v, n - 1)
           \o (IF \E j \in 1..(n - 1) : v[j] = v[n] THEN <<>> ELSE <<v[n]>>)

\* C22: Unique's Ok output contains no two structurally equal values and is
\* the subsequence of the upstream Ok values made of the first occurrence of
\* each distinct value, in first-occurrence order; at every step the
\* seen-set equals the set of Ok values yielded so far.
C22_UniqueFirstOccurrences ==
    prod.kind = "Unique" =>
      LET yielded == OkValues(Yielded)
          upstream == OkValues(Consumed)
      IN /\ yielded = FirstOccurrences(upstream, Len(upstream))
         /\ \A i, j \in DOMAIN yielded : i # j => yielded[i] # yielded[j]
         /\ prod.seen = { yielded[i] : i \in DOMAIN yielded }

\* 1, 2, 1: the 1 recurring after the 2 is left out.
C22_Witness ==
    /\ prod.kind = "Unique"
    /\ prod.a = <<Ok(MetaValInt(1)), Ok(MetaValInt(2)), Ok(MetaValInt(1))>>
    /\ prodOut = <<Some(Ok(MetaValInt(1))), Some(Ok(MetaValInt(2))), None>>
    /\ prod.seen = {MetaValInt(1), MetaValInt(2)}

\* The items of v at positions 0, n, 2n, ... (counted from 0), in order.
EveryNth(v, n) ==
    LET at == { k \in DOMAIN v : (k - 1) % n = 0 }
        pick == SelectSeq([k \in DOMAIN v |-> k], LAMBDA k : k \in at)
    IN [i \in DOMAIN pick |-> v[pick[i]]]

C24_StepByErrorsNotCounted ==
    prod.kind = "StepBy" =>
      /\ \A i \in DOMAIN prodLog :
           \A e \in ErrorsPulled(i) : prodOut[i] = e
      /\ OkValues(Yielded) = EveryNth(OkValues(Consumed), prod.n)

\* The upstream pulls of the first n calls, in order.
RECURSIVE PullsOfFirst(_)
PullsOfFirst(n) ==
    IF n = 0 THEN <<>> ELSE PullsOfFirst(n - 1) \o prodLog[n].pulls

AllPulls == PullsOfFirst(Len(prodLog))

\* C25: Chain yields all items of the first producer in order, then all
\* items of the second in order; the second producer is never pulled before
\* the first has returned None, and once the first has returned None it is
\* never pulled again on any later call.
C25_ChainInOrder ==
    prod.kind = "Chain" =>
      /\ Yielded = SubSeq(prod.a, 1, prod.ia) \o SubSeq(prod.b, 1, prod.ib)
      /\ prod.ib > 0 => prod.ia = Len(prod.a)
      /\ (\E i \in DOMAIN prodOut : prodOut[i] = None) =>
           prod.ia = Len(prod.a) /\ prod.ib = Len(prod.b)
      /\ \A k \in DOMAIN AllPulls :
           /\ AllPulls[k].side = "b" =>
                \E j \in 1..(k - 1) :
                  AllPulls[j].side = "a" /\ ~AllPulls[j].got.some
           /\ (AllPulls[k].side = "a" /\ ~AllPulls[k].got.some) =>
                \A j \in (k + 1)..Len(AllPulls) : AllPulls[j].side = "b"

\* One item on each side: the first, the second, None; the first producer
\* is asked twice, the second twice.
C25_Witness ==
    /\ prod.kind = "Chain"
    /\ prod.a = <<Ok(MetaValInt(1))>>
    /\ prod.b = <<Ok(MetaValInt(2))>>
    /\ prodOut = <<Some(Ok(MetaValInt(1))), Some(Ok(MetaValInt(2))), None>>
    /\ Len(AllPulls) = 4

\* The items of v at the positions in at, in order.
ItemsAt(v, at) ==
    LET pick == SelectSeq([k \in DOMAIN v |-> k], LAMBDA k : k \in at)
    IN [i \in DOMAIN pick |-> v[pick[i]]]

\* C26: Skip(N) yields exactly the upstream Ok items at positions >= N, in
\* order; every error at a position < N is emitted and counts as one of the
\* N discarded positions; over an upstream of at most N items no Ok item is
\* yielded.
C26_SkipDiscardsFirstN ==
    prod.kind = "Skip" =>
      /\ Yielded = ItemsAt(Consumed, { k \in DOMAIN Consumed :
                                         k > prod.n0 \/ ~Consumed[k].ok })
      /\ OkValues(Yielded) = OkValues(SubSeq(Consumed, prod.n0 + 1, prod.ia))
      /\ Len(prod.a) <= prod.n0 => OkValues(Yielded) = <<>>
      /\ (\E i \in DOMAIN prodOut : prodOut[i] = None) => prod.ia = Len(prod.a)

\* Skip(2) over an error and two values: the error is emitted and uses up
\* the first position, the first value the second, the second value is
\* yielded.
C26_Witness ==
    /\ prod.kind = "Skip"
    /\ prod.n0 = 2
    /\ prod.a = <<Err("ea"), Ok(MetaValInt(1)), Ok(MetaValInt(2))>>
    /\ prodOut = <<Some(Err("ea")), Some(Ok(MetaValInt(2))), None>>

\* C27: Take(N) yields exactly the first min(N, length) upstream items,
\* errors counting as items, and then None on every later call whatever the
\* upstream still holds; it pulls upstream at most N times in total, and not
\* at all when N = 0.
C27_TakeFirstN ==
    prod.kind = "Take" =>
      /\ Yielded = Consumed
      /\ Len(Yielded) <= Min(prod.n0, Len(prod.a))
      /\ \A i \in DOMAIN prodOut :
           prodOut[i] = None =>
             /\ Len(Yielded) = Min(prod.n0, Len(prod.a))
             /\ \A j \in i..Len(prodOut) : prodOut[j] = None
      /\ Len(AllPulls) <= prod.n0
      /\ prod.n0 = 0 => AllPulls = <<>>

\* Take(2) over three items, the second an error: both are yielded, then
\* None twice, and the third item is never pulled.
C27_Witness ==
    /\ prod.kind = "Take"
    /\ prod.n0 = 2
    /\ prod.a = <<Ok(MetaValInt(1)), Err("ea"), Ok(MetaValInt(2))>>
    /\ prodOut = <<Some(Ok(MetaValInt(1))), Some(Err("ea")), None, None>>
    /\ Len(AllPulls) = 2
    /\ prod.ia = 2

(* Claims about SkipWhile, TakeWhile and InBetween (SpecProducers).        *)

\* The predicate invocations of the first n calls, in order.
RECURSIVE TestsOfFirst(_)
TestsOfFirst(n) ==
    IF n = 0 THEN <<>> ELSE TestsOfFirst(n - 1) \o prodLog[n].tests

AllTests == TestsOfFirst(Len(prodLog))

\* The predicate is false (and does not fail) on the Ok item.
FailsPredicate(item) ==
    item.ok /\ test(prod.pred, item.val).ok /\ ~test(prod.pred, item.val).val

\* The position of the first consumed item the predicate is false on, 0 if
\* there is none.
FirstFalse ==
    LET at == { k \in DOMAIN Consumed : FailsPredicate(Consumed[k]) }
    IN IF at = {} THEN 0 ELSE CHOOSE k \in at : \A j \in at : k <= j

\* What comes out of items met while the predicate still decides and holds:
\* nothing for an Ok item, the error for an error or a failure of the
\* predicate.
RECURSIVE WhileHolding(_)
WhileHolding(v) ==
    IF v = <<>> THEN <<>>
    ELSE LET x == Head(v) IN
         IF ~x.ok THEN <<x>> \o WhileHolding(Tail(v))
         ELSE IF ~test(prod.pred, x.val).ok
         THEN <<Err(test(prod.pred, x.val).err)>> \o WhileHolding(Tail(v))
         ELSE WhileHolding(Tail(v))

\* C28: SkipWhile discards Ok items while the predicate holds; the first Ok
\* item the predicate is false on is yielded, and from then on every
\* upstream item is passed through unchanged and the predicate is never
\* evaluated again, even on items it would hold for.
C28_SkipWhileThenPassThrough ==
    prod.kind = "SkipWhile" =>
      /\ prod.flag <=> FirstFalse = 0
      /\ FirstFalse = 0 =>
           /\ Yielded = WhileHolding(Consumed)
           /\ AllTests = OkValues(Consumed)
      /\ FirstFalse > 0 =>
           /\ Yielded = WhileHolding(SubSeq(Consumed, 1, FirstFalse - 1))
                          \o SubSeq(Consumed, FirstFalse, prod.ia)
           /\ AllTests = OkValues(SubSeq(Consumed, 1, FirstFalse))
      /\ (\E i \in DOMAIN prodOut : prodOut[i] = None) => prod.ia = Len(prod.a)

\* is_one over 1, 2, 1: the first 1 is discarded, 2 is yielded, and the
\* second 1 is passed through without the predicate being asked.
C28_Witness ==
    /\ prod.kind = "SkipWhile"
    /\ prod.pred = "is_one"
    /\ prod.a = <<Ok(MetaValInt(1)), Ok(MetaValInt(2)), Ok(MetaValInt(1))>>
    /\ prodOut = <<Some(Ok(MetaValInt(2))), Some(Ok(MetaValInt(1))), None>>
    /\ AllTests = <<MetaValInt(1), MetaValInt(2)>>

\* The call pulled an Ok item the predicate is false on.
StoppedByPredicate(i) ==
    \E k \in DOMAIN prodLog[i].pulls :
      LET got == prodLog[i].pulls[k].got
      IN got.some /\ FailsPredicate(got.val)

\* The call emitted an error.
EmittedError(i) == prodOut[i].some /\ ~prodOut[i].val.ok

\* C29: TakeWhile yields Ok items while the predicate holds and ends the
\* whole stream at the first failing item or error: after the first item
\* the predicate is false on, and likewise after the first error it emits
\* (from upstream or from the predicate), every later call returns None and
\* upstream is not pulled again.
C29_TakeWhileTerminates ==
    prod.kind = "TakeWhile" =>
      \A i \in DOMAIN prodOut :
        /\ (prodOut[i].some /\ prodOut[i].val.ok) =>
             test(prod.pred, prodOut[i].val.val) = Ok(TRUE)
        /\ (StoppedByPredicate(i) \/ EmittedError(i)) =>
             \A j \in (i + 1)..Len(prodOut) :
               prodOut[j] = None /\ prodLog[j].pulls = <<>>

\* The items returned before the first None.
UpToFirstNone ==
    LET nones == { i \in DOMAIN prodOut : prodOut[i] = None }
        stop == IF nones = {} THEN Len(prodOut) + 1
                ELSE CHOOSE i \in nones : \A j \in nones : i <= j
    IN [k \in 1..(stop - 1) |-> prodOut[k].val]

\* x1, v, x2, v, ..., xn: the item v between every two consecutive items.
RECURSIVE Interspersed(_, _)
Interspersed(v, item) ==
    IF Len(v) <= 1 THEN v
    ELSE <<Head(v), item>> \o Interspersed(Tail(v), item)

\* C30: InBetween is interspersion: over a finite upstream x1..xn it yields,
\* up to its first None, x1, v, x2, v, ..., xn, starting with an upstream
\* item and with the injected value v only between two consecutive upstream
\* items: n upstream items and n-1 copies of v for n >= 1, nothing for n = 0.
C30_InBetweenIntersperses ==
    prod.kind = "InBetween" =>
      LET want == Interspersed(prod.a, Ok(prod.mv)) IN
        /\ Len(UpToFirstNone) <= Len(want)
        /\ UpToFirstNone = SubSeq(want, 1, Len(UpToFirstNone))
        /\ (\E i \in DOMAIN prodOut : prodOut[i] = None) =>
             UpToFirstNone = want

----------------------------------------------------------------------------
(* Claims about Mix and about the end of the stream (SpecProducers).       *)

\* a1, b1, a2, b2, ... and, once one side has run out, the rest of the
\* other.
RECURSIVE Interleaved(_, _)
Interleaved(a, b) ==
    IF a = <<>> THEN b
    ELSE IF b = <<>> THEN a
    ELSE <<Head(a), Head(b)>> \o Interleaved(Tail(a), Tail(b))

\* The side the i-th call prefers.
Preferred(i) == IF i % 2 = 1 THEN "a" ELSE "b"

\* C31: Mix over two finite producers yields every item of both exactly
\* once and returns None only when both are exhausted; while both have items
\* the output alternates a1, b1, a2, b2, ...; when the preferred side is
\* exhausted the item comes from the other side; each side's own order is
\* kept.
C31_MixInterleaves ==
    prod.kind = "Mix" =>
      /\ Len(UpToFirstNone) = prod.ia + prod.ib
      /\ UpToFirstNone =
           SubSeq(Interleaved(prod.a, prod.b), 1, prod.ia + prod.ib)
      /\ (\E i \in DOMAIN prodOut : prodOut[i] = None) =>
           prod.ia = Len(prod.a) /\ prod.ib = Len(prod.b)
      /\ \A i \in DOMAIN prodLog :
           LET pulls == prodLog[i].pulls IN
             /\ Len(pulls) \in {1, 2}
             /\ pulls[1].side = Preferred(i)
             /\ prodOut[i] = pulls[Len(pulls)].got
             /\ Len(pulls) = 2 =>
                  ~pulls[1].got.some /\ pulls[2].side # Preferred(i)
             /\ Len(pulls) = 1 => pulls[1].got.some

\* One item on the first side, two on the second: a1, b1, then b2 on the
\* call that prefers the exhausted first side, then None.
C31_Witness ==
    /\ prod.kind = "Mix"
    /\ prod.a = <<Ok(MetaValInt(1))>>
    /\ prod.b = <<Ok(MetaValInt(2)), Err("eb")>>
    /\ prodOut = <<Some(Ok(MetaValInt(1))), Some(Ok(MetaValInt(2))),
                   Some(Err("eb")), None>>
    /\ Len(prodLog[3].pulls) = 2

----------------------------------------------------------------------------
(* src/functions/util/number_like.rs and src/scripting/expr/op/op1.rs:     *)
(* numbers.  i64 is modelled with IntBits bits, two's complement.          *)

IntBits == 3

RECURSIVE Pow(_, _)
Pow(b, n) == IF n = 0 THEN 1 ELSE b * Pow(b, n - 1)

MinInt == -Pow(2, IntBits - 1)
MaxInt == Pow(2, IntBits - 1) - 1
I64 == MinInt..MaxInt

\* The two's-complement value an out-of-range result wraps to.
Wrap(x) == ((x - MinInt) % Pow(2, IntBits)) + MinInt

\* One outcome of an operation: it returned val, or it panicked.
Done(val) == [panicked |-> FALSE, val |-> val]
Panicked == [panicked |-> TRUE, val |-> Integer(0)]

\* i64 arithmetic whose exact result is x: the result when it fits; when it
\* does not, a panic (overflow checks on) or the wrapped value (checks off).
Overflowing(x) ==
    IF x \in I64 THEN {Done(Integer(x))}
    ELSE {Panicked, Done(Integer(Wrap(x)))}

\* std::cmp::Ordering, and i64::cmp.
Less == "Less"
Equal == "Equal"
Greater == "Greater"

IntCmp(l, r) == IF l < r THEN Less ELSE IF l = r THEN Equal ELSE Greater

\* BigDecimal: from an i64, comparison, sum and product.
Big(int_val, scale) == [int_val |-> int_val, scale |-> scale]
BigOf(n) == Big(n.int_val, n.scale)
DecimalOf(d) == Decimal(d.int_val, d.scale)
BigFrom(i) == Big(i, 0)

BigCmp(l, r) ==
    IntCmp(l.int_val * Pow(10, r.scale), r.int_val * Pow(10, l.scale))

BigAdd(l, r) ==
    LET scale == IF l.scale >= r.scale THEN l.scale ELSE r.scale
    IN Big(l.int_val * Pow(10, scale - l.scale)
             + r.int_val * Pow(10, scale - r.scale), scale)

BigMul(l, r) == Big(l.int_val * r.int_val, l.scale + r.scale)

BigNeg(d) == Big(-d.int_val, d.scale)

BigAbs(d) == Big(IF d.int_val < 0 THEN -d.int_val ELSE d.int_val, d.scale)

IsInteger(n) == n.tag = "Integer"

\* A slip: the derived Ord of the enum, variant first.
val_cmp_derived(self, other) ==
    IF IsInteger(self) /\ ~IsInteger(other) THEN Less
    ELSE IF ~IsInteger(self) /\ IsInteger(other) THEN Greater
    ELSE BigCmp(BigOf(self), BigOf(other))

\* NumberLike::val_cmp.
val_cmp(self, other) ==
    IF IsInteger(self) /\ IsInteger(other)
    THEN IntCmp(self.int_val, other.int_val)
    ELSE IF IsInteger(self)
    THEN BigCmp(BigFrom(self.int_val), BigOf(other))
    ELSE IF IsInteger(other)
    THEN BigCmp(BigOf(self), BigFrom(other.int_val))
    ELSE BigCmp(BigOf(self), BigOf(other))

\* NumberLike::val_eq.
val_eq(self, other) == val_cmp(self, other) = Equal

\* AddAssign for NumberLike: the outcomes of self += other.
add_assign(self, other) ==
    IF IsInteger(self) /\ IsInteger(other)
    THEN Overflowing(self.int_val + other.int_val)
    ELSE IF IsInteger(self)
    THEN {Done(DecimalOf(BigAdd(BigFrom(self.int_val), BigOf(other))))}
    ELSE IF IsInteger(other)
    THEN {Done(DecimalOf(BigAdd(BigOf(self), BigFrom(other.int_val))))}
    ELSE {Done(DecimalOf(BigAdd(BigOf(self), BigOf(other))))}

\* MulAssign for NumberLike: the outcomes of self *= other.
mul_assign(self, other) ==
    IF IsInteger(self) /\ IsInteger(other)
    THEN Overflowing(self.int_val * other.int_val)
    ELSE IF IsInteger(self)
    THEN {Done(DecimalOf(BigMul(BigFrom(self.int_val), BigOf(other))))}
    ELSE IF IsInteger(other)
    THEN {Done(DecimalOf(BigMul(BigOf(self), BigFrom(other.int_val))))}
    ELSE {Done(DecimalOf(BigMul(BigOf(self), BigOf(other))))}

\* Op::neg and Op::abs.
neg(number) ==
    IF IsInteger(number) THEN Overflowing(-number.int_val)
    ELSE {Done(IF number.int_val = 0 THEN number
               ELSE DecimalOf(BigNeg(BigOf(number))))}

abs(number) ==
    IF IsInteger(number)
    THEN Overflowing(IF number.int_val < 0 THEN -number.int_val
                     ELSE number.int_val)
    ELSE {Done(DecimalOf(BigAbs(BigOf(number))))}

----------------------------------------------------------------------------
(* SpecNumberLike: one operation applied to a number.                      *)

\* Decimals with one fractional digit, as tenths.
Tenths == {-25, -10, -5, 0, 5, 10, 25}

Numbers ==
    { Integer(i) : i \in I64 }
    \cup { Decimal(i, 0) : i \in I64 }
    \cup { Decimal(t, 1) : t \in Tenths }

InitNumberLike ==
    /\ FsRest
    /\ ProdIdle
    /\ ImplIdle
    /\ nl \in Numbers
    /\ nlCall = <<>>
    /\ nlRet = <<>>

\* One operation on the number drawn: logged with self and its operand, self
\* replaced when the operation assigns, the return value recorded.
Applied(op, other, self, r) ==
    /\ nlCall = <<>>
    /\ nlCall' = Append(nlCall, NumberCall(op, nl, other))
    /\ nl' = self
    /\ nlRet' = Append(nlRet, r)
    /\ UNCHANGED <<fs, sourcerVars, sourceVars, procVars, selVars, dirVars,
                   prodVars, implVars>>

\* An operation with the outcome o that leaves its result in self.
Assigned(op, other, o) ==
    IF o.panicked THEN Applied(op, other, nl, "panic")
    ELSE Applied(op, other, o.val, "()")

CallValCmp ==
    \E other \in Numbers :
      Applied("val_cmp", other, nl, val_cmp(nl, other))

CallAddAssign ==
    \E other \in Numbers : \E o \in add_assign(nl, other) :
      Assigned("add_assign", other, o)

CallMulAssign ==
    \E other \in Numbers : \E o \in mul_assign(nl, other) :
      Assigned("mul_assign", other, o)

CallNeg == \E o \in neg(nl) : Assigned("neg", Integer(0), o)

CallAbs == \E o \in abs(nl) : Assigned("abs", Integer(0), o)

NextNumberLike ==
    \/ CallValCmp
    \/ CallAddAssign
    \/ CallMulAssign
    \/ CallNeg
    \/ CallAbs

SpecNumberLike == InitNumberLike /\ [][NextNumberLike]_vars

----------------------------------------------------------------------------
(* Claims about NumberLike (SpecNumberLike).                               *)

\* The numeric value of x is below that of y.
ValueLess(x, y) ==
    x.int_val * Pow(10, y.scale) < y.int_val * Pow(10, x.scale)

ValueEqual(x, y) == ~ValueLess(x, y) /\ ~ValueLess(y, x)

Reversed(o) == IF o = Less THEN Greater ELSE IF o = Greater THEN Less ELSE o

\* C32: val_cmp compares by numeric value whatever the variants: for all
\* integers l, r the four comparisons of Integer(l)/Decimal(l) with
\* Integer(r)/Decimal(r) equal l.cmp(r), Integer(i) val_eq Decimal(i) for
\* every i, and val_cmp is a total order on mixed values.
C32_ValCmpByValue ==
    /\ \A l, r \in I64 :
         \A x \in {Integer(l), Decimal(l, 0)} :
           \A y \in {Integer(r), Decimal(r, 0)} :
             val_cmp(x, y) = IntCmp(l, r)
    /\ \A i \in I64 : val_eq(Integer(i), Decimal(i, 0))
    /\ \A k \in DOMAIN nlCall :
         nlCall[k].op = "val_cmp" =>
           LET x == nlCall[k].self
               y == nlCall[k].other
           IN /\ nlRet[k] = val_cmp(x, y)
              /\ nlRet[k] = Less <=> ValueLess(x, y)
              /\ nlRet[k] = Greater <=> ValueLess(y, x)
              /\ nlRet[k] = Equal <=> ValueEqual(x, y)
              /\ val_cmp(y, x) = Reversed(nlRet[k])
              /\ \A z \in Numbers :
                   (nlRet[k] # Greater /\ val_cmp(y, z) # Greater) =>
                     val_cmp(x, z) # Greater

\* Integer(1) compared with the Decimal 1.0 (ten tenths): Equal.
C32_Witness ==
    /\ nlCall = <<NumberCall("val_cmp", Integer(1), Decimal(10, 1))>>
    /\ nlRet = <<Equal>>

\* x's value is the sum (the product) of the values of l and r.
IsSumOf(x, l, r) ==
    LET scale == x.scale + l.scale + r.scale
    IN x.int_val * Pow(10, scale - x.scale) =
         l.int_val * Pow(10, scale - l.scale)
           + r.int_val * Pow(10, scale - r.scale)

IsProductOf(x, l, r) ==
    x.int_val * Pow(10, l.scale + r.scale) =
      l.int_val * r.int_val * Pow(10, x.scale)

\* C33: += and *= follow the promotion rule: the result is an Integer iff
\* both operands are Integers and a Decimal iff at least one is a Decimal,
\* and in every case its numeric value is the sum (the product) of the
\* operands' numeric values.
C33_PromotionRule ==
    \A k \in DOMAIN nlCall :
      LET l == nlCall[k].self
          r == nlCall[k].other
      IN nlCall[k].op \in {"add_assign", "mul_assign"} =>
           /\ nlRet[k] = "()"
           /\ IsInteger(nl) <=> (IsInteger(l) /\ IsInteger(r))
           /\ ~IsInteger(nl) <=> (~IsInteger(l) \/ ~IsInteger(r))
           /\ nlCall[k].op = "add_assign" => IsSumOf(nl, l, r)
           /\ nlCall[k].op = "mul_assign" => IsProductOf(nl, l, r)

----------------------------------------------------------------------------
(* src/functions/operator/binary.rs: the functions of Impl.  A producer    *)
(* handed to them is a vector of items pulled from the front.              *)

OutOfBounds == "out of bounds"

\* What a function of Impl returned: the Result, with one field per type a
\* function can return.
OkMetaVal(mv) ==
    [ok |-> TRUE, val |-> mv, bool |-> FALSE, seq |-> <<>>, err |-> "-"]
OkBool(b) ==
    [ok |-> TRUE, val |-> MetaValInt(0), bool |-> b, seq |-> <<>>,
     err |-> "-"]
OkVec(s) ==
    [ok |-> TRUE, val |-> MetaValInt(0), bool |-> FALSE, seq |-> s,
     err |-> "-"]
Failed(e) ==
    [ok |-> FALSE, val |-> MetaValInt(0), bool |-> FALSE, seq |-> <<>>,
     err |-> e]

\* The result, the number of calls of the producer's next, and the values
\* the predicate was applied to.
ImplReturned(res, pulls, tests) ==
    [res |-> res, pulls |-> pulls, tests |-> tests]

\* A slip: the producer is drained, and any error in it is reported.
nth_after_collect(vp, n, i) ==
    LET errs == { k \in DOMAIN vp : ~vp[k].ok }
        first == CHOOSE k \in errs : \A j \in errs : k <= j
    IN IF errs # {}
       THEN ImplReturned(Failed(vp[first].err), first, <<>>)
       ELSE IF n < Len(vp)
       THEN ImplReturned(OkMetaVal(vp[n + 1].val), Len(vp) + 1, <<>>)
       ELSE ImplReturned(Failed(OutOfBounds), Len(vp) + 1, <<>>)

\* Impl::nth: the for loop from its i-th turn on.
RECURSIVE nth(_, _, _)
nth(vp, n, i) ==
    IF i >= Len(vp) THEN ImplReturned(Failed(OutOfBounds), i + 1, <<>>)
    ELSE LET res_mv == vp[i + 1] IN
         IF ~res_mv.ok THEN ImplReturned(Failed(res_mv.err), i + 1, <<>>)
         ELSE IF i = n THEN ImplReturned(OkMetaVal(res_mv.val), i + 1, <<>>)
         ELSE nth(vp, n, i + 1)

\* Impl::nth_s.
nth_s(seq, n) ==
    IF n < Len(seq) THEN OkMetaVal(seq[n + 1]) ELSE Failed(OutOfBounds)

\* AllAny::target.
target(flag) == flag = "Any"

\* A slip: every item is examined before the answer is given.
RECURSIVE all_any_exhaustive(_, _, _, _, _)
all_any_exhaustive(vp, u_pred, flag, i, tests) ==
    LET decided ==
          \E k \in DOMAIN tests :
            test(u_pred, tests[k]) = Ok(target(flag))
    IN IF i >= Len(vp)
       THEN ImplReturned(OkBool(IF decided THEN target(flag)
                                ELSE ~target(flag)), i + 1, tests)
       ELSE LET res_mv == vp[i + 1] IN
            IF ~res_mv.ok
            THEN ImplReturned(Failed(res_mv.err), i + 1, tests)
            ELSE LET t == test(u_pred, res_mv.val)
                     t1 == Append(tests, res_mv.val)
                 IN IF ~t.ok THEN ImplReturned(Failed(t.err), i + 1, t1)
                    ELSE all_any_exhaustive(vp, u_pred, flag, i + 1, t1)

\* Impl::all_any: the for loop from its i-th turn on.
RECURSIVE all_any(_, _, _, _, _)
all_any(vp, u_pred, flag, i, tests) ==
    IF i >= Len(vp) THEN ImplReturned(OkBool(~target(flag)), i + 1, tests)
    ELSE LET res_mv == vp[i + 1] IN
         IF ~res_mv.ok THEN ImplReturned(Failed(res_mv.err), i + 1, tests)
         ELSE LET t == test(u_pred, res_mv.val)
                  t1 == Append(tests, res_mv.val)
              IN IF ~t.ok THEN ImplReturned(Failed(t.err), i + 1, t1)
                 ELSE IF t.val = target(flag)
                 THEN ImplReturned(OkBool(target(flag)), i + 1, t1)
                 ELSE all_any(vp, u_pred, flag, i + 1, t1)

\* Impl::all and Impl::any.
all(vp, u_pred) == all_any(vp, u_pred, "All", 0, <<>>)
any(vp, u_pred) == all_any(vp, u_pred, "Any", 0, <<>>)

\* A slip: one value more than asked for is taken.
take_s_one_more(seq, n) == SubSeq(seq, 1, Min(n + 1, Len(seq)))

\* Impl::skip_s, Impl::take_s and Impl::chain_s.
skip_s(seq, n) == SubSeq(seq, n + 1, Len(seq))
take_s(seq, n) == SubSeq(seq, 1, Min(n, Len(seq)))
chain_s(seq_a, seq_b) == seq_a \o seq_b

\* Fixed::new and Fixed::next: every value of the vector, as an Ok item.
Fixed(v) == [k \in DOMAIN v |-> Ok(v[k])]

\* Iterator::collect into Result<Vec<MetaVal>, Error> over one of the lazy
\* producers Skip, Take and Chain: next is called until None or the first
\* error.
lazy_next(st) ==
    IF st.kind = "Skip" THEN SkipNext(st, <<>>)
    ELSE IF st.kind = "Take" THEN TakeNext(st)
    ELSE ChainNext(st)

RECURSIVE collect(_, _)
collect(st, acc) ==
    LET r == lazy_next(st) IN
    IF ~r.out.some THEN OkVec(acc)
    ELSE IF ~r.out.val.ok THEN Failed(r.out.val.err)
    ELSE collect(r.st, Append(acc, r.out.val.val))

----------------------------------------------------------------------------
(* SpecImpl: one function of Impl applied to its arguments.                *)

MetaVals == { MetaValInt(1), MetaValInt(2) }

ImplCall(op, vp, seq_b, n, u_pred) ==
    [op |-> op, vp |-> vp, seq_b |-> seq_b, n |-> n, u_pred |-> u_pred]

InitImpl ==
    /\ FsRest
    /\ ProdIdle
    /\ NumIdle
    /\ ImplIdle

\* One application: the call and what it returned are recorded.
ImplApplied(c, r) ==
    /\ implCall = <<>>
    /\ implCall' = <<c>>
    /\ implRet' = <<r>>
    /\ UNCHANGED <<fs, sourcerVars, sourceVars, procVars, selVars, dirVars,
                   prodVars, numVars>>

CallNth ==
    \E vp \in Vecs(ItemsA, MaxItems), n \in 0..MaxItems :
      ImplApplied(ImplCall("nth", vp, <<>>, n, NoPred), nth(vp, n, 0))

CallAll ==
    \E vp \in Vecs(ItemsA, MaxItems), u_pred \in Predicates :
      ImplApplied(ImplCall("all", vp, <<>>, 0, u_pred), all(vp, u_pred))

CallAny ==
    \E vp \in Vecs(ItemsA, MaxItems), u_pred \in Predicates :
      ImplApplied(ImplCall("any", vp, <<>>, 0, u_pred), any(vp, u_pred))

CallNthS ==
    \E seq \in Vecs(MetaVals, MaxItems), n \in 0..MaxItems :
      ImplApplied(ImplCall("nth_s", seq, <<>>, n, NoPred),
                  ImplReturned(nth_s(seq, n), 0, <<>>))

CallSkipS ==
    \E seq \in Vecs(MetaVals, MaxItems), n \in 0..MaxItems :
      ImplApplied(ImplCall("skip_s", seq, <<>>, n, NoPred),
                  ImplReturned(OkVec(skip_s(seq, n)), 0, <<>>))

CallTakeS ==
    \E seq \in Vecs(MetaVals, MaxItems), n \in 0..MaxItems :
      ImplApplied(ImplCall("take_s", seq, <<>>, n, NoPred),
                  ImplReturned(OkVec(take_s(seq, n)), 0, <<>>))

CallChainS ==
    \E seq_a \in Vecs(MetaVals, MaxItems),
       seq_b \in Vecs(MetaVals, MaxItems - 1) :
      ImplApplied(ImplCall("chain_s", seq_a, seq_b, 0, NoPred),
                  ImplReturned(OkVec(chain_s(seq_a, seq_b)), 0, <<>>))

NextImpl ==
    \/ CallNth
    \/ CallAll
    \/ CallAny
    \/ CallNthS
    \/ CallSkipS
    \/ CallTakeS
    \/ CallChainS

SpecImpl == InitImpl /\ [][NextImpl]_vars

----------------------------------------------------------------------------
(* Claims about the functions of Impl (SpecImpl).                          *)

\* The positions (from 1) of the errors among the first k items of vp.
ErrorsWithin(vp, k) == { j \in DOMAIN vp : j <= k /\ ~vp[j].ok }

FirstOf(S) == CHOOSE k \in S : \A j \in S : k <= j

\* C34: Impl::nth(vp, n) returns the item at 0-based position n when the
\* first n+1 items are all Ok, the first error at a position <= n when there
\* is one, OutOfBounds when the producer ends before position n; it never
\* pulls or reports anything after position n.
C34_NthStopsAtN ==
    \A c \in DOMAIN implCall :
      implCall[c].op = "nth" =>
        LET vp == implCall[c].vp
            n == implCall[c].n
            errs == ErrorsWithin(vp, n + 1)
            r == implRet[c]
        IN /\ (Len(vp) >= n + 1 /\ errs = {}) =>
                r.res = OkMetaVal(vp[n + 1].val)
           /\ errs # {} => r.res = Failed(vp[FirstOf(errs)].err)
           /\ (Len(vp) <= n /\ errs = {}) => r.res = Failed(OutOfBounds)
           /\ r.pulls <= n + 1
           /\ errs # {} => r.pulls = FirstOf(errs)

\* Position 1 of Ok 1, Ok 2, Err: Ok 2 after two pulls, the error behind it
\* unseen.
C34_Witness ==
    /\ implCall = <<ImplCall("nth", <<Ok(MetaValInt(1)), Ok(MetaValInt(2)),
                                      Err("ea")>>, <<>>, 1, NoPred)>>
    /\ implRet = <<ImplReturned(OkMetaVal(MetaValInt(2)), 2, <<>>)>>

\* The item ends the loop of all_any: an error, a failure of the predicate,
\* or an Ok item that decides the answer.
EndsLoop(item, u_pred, flag) ==
    \/ ~item.ok
    \/ ~test(u_pred, item.val).ok
    \/ test(u_pred, item.val).val = target(flag)

\* C35: Impl::all and Impl::any short-circuit: all returns Ok(false) at the
\* first Ok item the predicate is false on and any returns Ok(true) at the
\* first it is true on, without pulling further items, so later errors are
\* not reported; an upstream or predicate error met before a deciding item
\* is the result; on an empty producer all is Ok(true) and any is Ok(false).
C35_AllAnyShortCircuit ==
    \A c \in DOMAIN implCall :
      implCall[c].op \in {"all", "any"} =>
        LET vp == implCall[c].vp
            u_pred == implCall[c].u_pred
            flag == IF implCall[c].op = "all" THEN "All" ELSE "Any"
            ends == { k \in DOMAIN vp : EndsLoop(vp[k], u_pred, flag) }
            r == implRet[c]
        IN /\ ends = {} =>
                /\ r.res = OkBool(implCall[c].op = "all")
                /\ r.pulls = Len(vp) + 1
                /\ r.tests = OkValues(vp)
           /\ ends # {} =>
                LET p == FirstOf(ends) IN
                  /\ r.pulls = p
                  /\ r.tests = OkValues(SubSeq(vp, 1, p))
                  /\ r.res =
                       IF ~vp[p].ok THEN Failed(vp[p].err)
                       ELSE IF ~test(u_pred, vp[p].val).ok
                       THEN Failed(test(u_pred, vp[p].val).err)
                       ELSE OkBool(implCall[c].op = "any")

\* all with is_one over Ok 1, Ok 2, Err: Ok(false) at the second item, the
\* error behind it not pulled.
C35_Witness ==
    /\ implCall = <<ImplCall("all", <<Ok(MetaValInt(1)), Ok(MetaValInt(2)),
                                      Err("ea")>>, <<>>, 0, "is_one")>>
    /\ implRet = <<ImplReturned(OkBool(FALSE), 2,
                                <<MetaValInt(1), MetaValInt(2)>>)>>

----------------------------------------------------------------------------
(* A claim about Source::meta_path under Sourcer::meta_paths (Spec).       *)

\* C36: meta_path always stats the item path first, for both anchors: when
\* the item path cannot be accessed (not existing included) the result is
\* ItemAccess, which is fatal, even when the candidate meta file exists
\* beside it; so meta_paths on such an item path never yields an Ok element.
C36_ItemStatFirst ==
    (mp.live /\ ~Stat(fs, mp.item_path).ok) =>
      LET e == ErrorV("ItemAccess", mp.item_path,
                      Stat(fs, mp.item_path).err)
      IN /\ is_fatal(e)
         /\ \A source \in Sources :
              meta_path(fs, source, mp.item_path) = Err(e)
         /\ \A k \in DOMAIN mpOut :
              mpOut[k].some => mpOut[k].val = Err(e)

\* The item /d does not exist, the External candidate /m beside it is a
\* regular file: the first element is the ItemAccess error.
C36_Witness ==
    /\ mp.live
    /\ mp.item_path = <<RootDir, NameD>>
    /\ fs[<<RootDir, NameD>>] = "absent"
    /\ fs[<<RootDir, NameM>>] = "file"
    /\ sourcer # <<>>
    /\ sourcer[1] = SourceV(NameM, "External")
    /\ mpOut = <<Some(Err(ErrorV("ItemAccess", <<RootDir, NameD>>,
                                 "NotFound")))>>

----------------------------------------------------------------------------
(* Claims about the end of the stream and error-free input                 *)
(* (SpecProducers).                                                        *)

\* C37: InBetween and Mix are fused over fused upstreams: once next() has
\* returned None, every later call returns None too; no injected value and
\* no further item comes after the end of the stream.
C37_FusedAfterNone ==
    prod.kind \in {"InBetween", "Mix"} =>
      \A i \in DOMAIN prodOut :
        prodOut[i] = None =>
          \A j \in i..Len(prodOut) : prodOut[j] = None

----------------------------------------------------------------------------
(* A claim about the sequence variants of Impl (SpecImpl).                 *)

\* The lazy producer of the given kind over Fixed(s) and Fixed(t).
LazyOver(kind, s, t, n) == NewProducer(kind, Fixed(s), Fixed(t), n, NoPred)

\* C39: the sequence variants built on sequence operations agree with the
\* lazy producers: for every error-free sequence s (and t) and every n,
\* nth_s, skip_s, take_s and chain_s equal nth, Skip, Take and Chain run
\* over Fixed(s) (and Fixed(t)) and collected.
C39_SequenceVariantsAgree ==
    \A c \in DOMAIN implCall :
      LET s == implCall[c].vp
          t == implCall[c].seq_b
          n == implCall[c].n
          res == implRet[c].res
      IN /\ implCall[c].op = "nth_s" => res = nth(Fixed(s), n, 0).res
         /\ implCall[c].op = "skip_s" =>
              res = collect(LazyOver("Skip", s, <<>>, n), <<>>)
         /\ implCall[c].op = "take_s" =>
              res = collect(LazyOver("Take", s, <<>>, n), <<>>)
         /\ implCall[c].op = "chain_s" =>
              res = collect(LazyOver("Chain", s, t, 0), <<>>)

\* take_s of 1, 2, 1 with n = 2: the first two values.
C39_Witness ==
    /\ implCall = <<ImplCall("take_s", <<MetaValInt(1), MetaValInt(2),
                                         MetaValInt(1)>>, <<>>, 2, NoPred)>>
    /\ implRet = <<ImplReturned(OkVec(<<MetaValInt(1), MetaValInt(2)>>), 0,
                                <<>>)>>

----------------------------------------------------------------------------
(* A claim about Integer arithmetic (SpecNumberLike).                      *)

\* C40: no Integer operation overflows: for every Integer operand Neg
\* returns the exact negation and Abs a non-negative value, and for every
\* pair of Integers += and *= return the exact sum and product, the minimum
\* and maximum integers included.
C40_NoIntegerOverflow ==
    \A k \in DOMAIN nlCall :
      LET op == nlCall[k].op
          l == nlCall[k].self
          r == nlCall[k].other
      IN (op # "val_cmp" /\ IsInteger(l) /\ IsInteger(r)) =>
           /\ nlRet[k] = "()"
           /\ IsInteger(nl)
           /\ op = "neg" => nl.int_val = -l.int_val
           /\ op = "abs" => nl.int_val >= 0
           /\ op = "add_assign" => nl.int_val = l.int_val + r.int_val
           /\ op = "mul_assign" => nl.int_val = l.int_val * r.int_val

====
